---- MODULE Spec2Model ----
(***************************************************************************)
(* State-machine model of opfs-project: the read orchestrator (lib.rs),    *)
(* the fuse-link layer (fuse.rs), registry-fs (registry_fs.rs) and the     *)
(* installer (package_manager.rs, pack.rs), and the archive cache          *)
(* (tar_cache.rs).                                                         *)
(*                                                                         *)
(* Paths and file contents are TLA+ strings, handled character by          *)
(* character the way the Rust code handles them (str::starts_with,         *)
(* strip_prefix, Path::parent, Path::starts_with ...).                     *)
(* Option<T> is a sequence of length 0 (None) or 1 (Some).                 *)
(***************************************************************************)
EXTENDS Integers, Sequences, FiniteSets, TLC

VARIABLES
    fs,                      \* storage: absolute path -> [dir, data]
    FUSE_LINK_CACHE,         \* fuse.rs:12   sentinel path -> target
    PACKAGE_METADATA_CACHE,  \* registry_fs.rs:23  install_path -> PackageMetadata
    FETCHED_DIRS_CACHE,      \* registry_fs.rs:28  set of absolute paths
    rd,                      \* the read / read_dir call in progress
    linked,                  \* history: dst -> src of the successful fuse_link calls
    inst,                    \* the install_deps call in progress
    tasks,                   \* install_package futures of that call
    gets,                    \* history: url -> number of HTTP GETs in this install call
    io,                      \* history: what each install_package future has written
    TAR_CACHE,               \* tar_cache.rs:130  the TarCache
    tc                       \* the extract_file_cached call in progress

vars == <<fs, FUSE_LINK_CACHE, PACKAGE_METADATA_CACHE, FETCHED_DIRS_CACHE,
          rd, linked, inst, tasks, gets, io, TAR_CACHE, tc>>

None == << >>
Some(x) == << x >>
IsSome(o) == Len(o) = 1
Unwrap(o) == o[1]

(***************************************************************************)
(* Strings                                                                 *)
(***************************************************************************)
Char(s, i) == SubSeq(s, i, i)
StartsWith(s, t) == Len(t) <= Len(s) /\ SubSeq(s, 1, Len(t)) = t
EndsWith(s, t) == Len(t) <= Len(s) /\ SubSeq(s, Len(s) - Len(t) + 1, Len(s)) = t
Skip(s, n) == SubSeq(s, n + 1, Len(s))
StripPrefix(s, t) == IF StartsWith(s, t) THEN Some(Skip(s, Len(t))) ELSE None
StripSuffix(s, t) == IF EndsWith(s, t) THEN Some(SubSeq(s, 1, Len(s) - Len(t))) ELSE None

RECURSIVE FindFrom(_, _, _)
\* first index >= i at which character c occurs in s, 0 if none
FindFrom(s, c, i) ==
    IF i > Len(s) THEN 0
    ELSE IF Char(s, i) = c THEN i
    ELSE FindFrom(s, c, i + 1)
Find(s, c) == FindFrom(s, c, 1)
Contains(s, c) == Find(s, c) # 0

RECURSIVE RFindFrom(_, _, _)
\* last index <= i at which character c occurs in s, 0 if none
RFindFrom(s, c, i) ==
    IF i < 1 THEN 0
    ELSE IF Char(s, i) = c THEN i
    ELSE RFindFrom(s, c, i - 1)
RFind(s, c) == RFindFrom(s, c, Len(s))

RECURSIVE TrimStartMatches(_, _)
TrimStartMatches(s, c) ==
    IF Len(s) > 0 /\ Char(s, 1) = c THEN TrimStartMatches(Skip(s, 1), c) ELSE s
RECURSIVE TrimEndMatches(_, _)
TrimEndMatches(s, c) ==
    IF Len(s) > 0 /\ Char(s, Len(s)) = c
    THEN TrimEndMatches(SubSeq(s, 1, Len(s) - 1), c) ELSE s

IsWhite(c) == c \in {" ", "\n", "\t", "\r"}
RECURSIVE TrimStart(_)
TrimStart(s) == IF Len(s) > 0 /\ IsWhite(Char(s, 1)) THEN TrimStart(Skip(s, 1)) ELSE s
RECURSIVE TrimEnd(_)
TrimEnd(s) ==
    IF Len(s) > 0 /\ IsWhite(Char(s, Len(s)))
    THEN TrimEnd(SubSeq(s, 1, Len(s) - 1)) ELSE s
Trim(s) == TrimEnd(TrimStart(s))

\* str::lines().next().unwrap_or("")
FirstLine(s) ==
    LET i == Find(s, "\n") IN IF i = 0 THEN s ELSE SubSeq(s, 1, i - 1)

RECURSIVE Split(_, _)
\* str::split(c): the pieces between the occurrences of c, empty ones included
Split(s, c) ==
    LET i == Find(s, c) IN
    IF i = 0 THEN << s >>
    ELSE << SubSeq(s, 1, i - 1) >> \o Split(Skip(s, i), c)

(***************************************************************************)
(* std::path::Path                                                         *)
(***************************************************************************)
IsAbs(p) == StartsWith(p, "/")
\* the normal components of a path ("" and "." pieces are not components)
Components(p) == SelectSeq(Split(p, "/"), LAMBDA c : c # "" /\ c # ".")
IsPrefixSeq(a, b) == Len(a) <= Len(b) /\ SubSeq(b, 1, Len(a)) = a
\* Path::starts_with compares whole components
PathStartsWith(p, base) ==
    /\ IsAbs(p) = IsAbs(base)
    /\ IsPrefixSeq(Components(base), Components(p))
\* Path::file_name
FileName(p) ==
    LET cs == Components(p) IN IF cs = << >> THEN None ELSE Some(cs[Len(cs)])
\* Path::parent
Parent(p) ==
    LET q == TrimEndMatches(p, "/")
        i == RFind(q, "/")
    IN  IF Components(p) = << >> THEN None
        ELSE IF i = 0 THEN Some("")
        ELSE IF i = 1 THEN Some("/")
        ELSE Some(SubSeq(q, 1, i - 1))
\* Path::join
Join(p, name) ==
    IF IsAbs(name) THEN name
    ELSE IF p = "" THEN name
    ELSE IF EndsWith(p, "/") THEN p \o name
    ELSE p \o "/" \o name

(***************************************************************************)
(* Storage collaborator (tokio_fs_ext), as the code uses it.  A node is    *)
(* [dir |-> BOOLEAN, data |-> STRING]; relative paths resolve against the  *)
(* current working directory.  Every operation yields [ok, fs, ...].       *)
(***************************************************************************)
Cwd == "/p"

RECURSIVE JoinComponents(_)
JoinComponents(cs) ==
    IF cs = << >> THEN "" ELSE "/" \o cs[1] \o JoinComponents(Tail(cs))
\* the absolute, normalised path the storage acts on
Canon(p) ==
    LET cs == IF IsAbs(p) THEN Components(p) ELSE Components(Cwd) \o Components(p)
    IN  IF cs = << >> THEN "/" ELSE JoinComponents(cs)

Exists(f, p) == Canon(p) = "/" \/ Canon(p) \in DOMAIN f
IsDir(f, p) == Canon(p) = "/" \/ (Canon(p) \in DOMAIN f /\ f[Canon(p)].dir)
IsFile(f, p) == Canon(p) \in DOMAIN f /\ ~f[Canon(p)].dir
DirNode == [dir |-> TRUE, data |-> ""]
FileNode(d) == [dir |-> FALSE, data |-> d]

\* the path itself and its ancestors, the root excluded
Ancestors(p) ==
    LET cs == Components(Canon(p)) IN
    { JoinComponents(SubSeq(cs, 1, n)) : n \in 1..Len(cs) }

\* tokio_fs_ext::create_dir_all
CreateDirAll(f, p) ==
    IF \E a \in Ancestors(p) : IsFile(f, a)
    THEN [ok |-> FALSE, fs |-> f]
    ELSE [ok |-> TRUE,
          fs |-> [q \in DOMAIN f \cup Ancestors(p) |->
                    IF q \in DOMAIN f THEN f[q] ELSE DirNode]]

\* tokio_fs_ext::write: creates or truncates the file; the parent must exist
WriteFile(f, p, d) ==
    LET c == Canon(p)
        par == Parent(c)
    IN  IF c = "/" \/ IsDir(f, c) \/ ~IsDir(f, Unwrap(par))
        THEN [ok |-> FALSE, fs |-> f]
        ELSE [ok |-> TRUE,
              fs |-> [q \in DOMAIN f \cup {c} |-> IF q = c THEN FileNode(d) ELSE f[q]]]

\* tokio_fs_ext::read / read_to_string
ReadFile(f, p) == IF IsFile(f, p) THEN Some(f[Canon(p)].data) ELSE None

\* tokio_fs_ext::remove_dir_all
RemoveDirAll(f, p) ==
    LET c == Canon(p) IN
    IF c = "/" \/ ~IsDir(f, c)
    THEN [ok |-> FALSE, fs |-> f]
    ELSE [ok |-> TRUE,
          fs |-> [q \in {q \in DOMAIN f : ~PathStartsWith(q, c)} |-> f[q]]]

\* tokio_fs_ext::create_dir: the directory must not exist, its parent must
CreateDir(f, p) ==
    LET c == Canon(p) IN
    IF Exists(f, c) \/ ~IsDir(f, Unwrap(Parent(c)))
    THEN [ok |-> FALSE, fs |-> f]
    ELSE [ok |-> TRUE, fs |-> [q \in DOMAIN f \cup { c } |-> IF q = c THEN DirNode ELSE f[q]]]

\* tokio_fs_ext::copy: the bytes of the file at from written at to
CopyFile(f, from, to) ==
    IF ~IsFile(f, from) THEN [ok |-> FALSE, fs |-> f]
    ELSE WriteFile(f, to, f[Canon(from)].data)

\* tokio_fs_ext::remove_file
RemoveFile(f, p) ==
    IF ~IsFile(f, p) THEN [ok |-> FALSE, fs |-> f]
    ELSE [ok |-> TRUE, fs |-> [q \in DOMAIN f \ { Canon(p) } |-> f[q]]]

\* tokio_fs_ext::remove_dir: the directory must be empty
RemoveDir(f, p) ==
    LET c == Canon(p) IN
    IF c = "/" \/ ~IsDir(f, c) \/ \E q \in DOMAIN f : Parent(q) = Some(c)
    THEN [ok |-> FALSE, fs |-> f]
    ELSE [ok |-> TRUE, fs |-> [q \in DOMAIN f \ { c } |-> f[q]]]

\* util::read_dir_direct: the entries of a directory, each with its kind
read_dir_direct(f, p) ==
    LET c == Canon(p) IN
    IF ~IsDir(f, c) THEN None
    ELSE Some({ [name |-> Unwrap(FileName(q)), dir |-> f[q].dir] :
                q \in {q \in DOMAIN f : Parent(q) = Some(c)} })

\* util::prepare_path
prepare_path(path) ==
    IF StartsWith(path, "/") THEN path ELSE Cwd \o "/" \o path

(***************************************************************************)
(* Fuse-link layer (fuse.rs)                                               *)
(***************************************************************************)
RECURSIVE WalkUp(_, _)
\* the loop of get_fuse_link_path; t0 is temp.0 before the shift
WalkUp(current, t0) ==
    LET par == Parent(current) IN
    IF par = None THEN None
    ELSE LET parent == Unwrap(par)
             fname == FileName(current)
         IN  IF fname = None THEN WalkUp(parent, t0)
             ELSE LET name == Unwrap(fname) IN
                  IF FileName(parent) = Some("node_modules") /\ name # ""
                  THEN IF t0 = ""
                       THEN Some(Join(Join(parent, name), "fuse.link"))
                       ELSE IF StartsWith(name, "@")
                       THEN Some(Join(Join(Join(parent, name), t0), "fuse.link"))
                       ELSE Some(Join(Join(parent, name), "fuse.link"))
                  ELSE WalkUp(parent, name)

\* get_fuse_link_path: the cache is searched first with HashMap::keys().find,
\* whose iteration order is unspecified: every matching key is a possible
\* result.  The value is the set of results the call can return.
get_fuse_link_path(cache, path) ==
    LET hits == { k \in DOMAIN cache : PathStartsWith(path, Unwrap(Parent(k))) } IN
    IF hits # {} THEN { Some(k) : k \in hits } ELSE { WalkUp(path, "") }

\* fuse_link(src, dst): the set of outcomes [ok, fs, cache]
fuse_link(f, cache, src, dst) ==
    LET mk == CreateDirAll(f, dst) IN
    IF ~mk.ok THEN { [ok |-> FALSE, fs |-> f, cache |-> cache] }
    ELSE { IF fl = None THEN [ok |-> FALSE, fs |-> mk.fs, cache |-> cache]
           ELSE LET wr == WriteFile(mk.fs, Unwrap(fl), src \o "\n") IN
                IF ~wr.ok THEN [ok |-> FALSE, fs |-> mk.fs, cache |-> cache]
                ELSE [ok |-> TRUE, fs |-> wr.fs,
                      cache |-> [k \in DOMAIN cache \cup {Unwrap(fl)} |->
                                   IF k = Unwrap(fl) THEN src ELSE cache[k]]]
         : fl \in get_fuse_link_path(cache, dst) }

\* the tail of get_fuse_link_target_path, once the target of the sentinel is known
ResolveTarget(fl, target_dir, path_str, cache) ==
    LET fuse_link_dir_str == Unwrap(Parent(fl)) IN
    IF ~StartsWith(path_str, fuse_link_dir_str)
    THEN [res |-> "Err", target |-> "", rel |-> "", cache |-> cache]
    ELSE LET n == Len(fuse_link_dir_str)
             rel_start == IF Len(path_str) > n /\ Char(path_str, n + 1) \in {"/", "\\"}
                          THEN n + 1 ELSE n
             relative_str == Skip(path_str, rel_start)
         IN  [res |-> "Some",
              target |-> IF relative_str = "" THEN target_dir
                         ELSE target_dir \o "/" \o relative_str,
              rel |-> relative_str, cache |-> cache]

\* get_fuse_link_target_path: the set of outcomes [res, target, rel, cache]
get_fuse_link_target_path(f, cache, path) ==
    { IF fl = None THEN [res |-> "None", target |-> "", rel |-> "", cache |-> cache]
      ELSE IF Unwrap(fl) \in DOMAIN cache
      THEN ResolveTarget(Unwrap(fl), cache[Unwrap(fl)], path, cache)
      ELSE LET link_content == ReadFile(f, Unwrap(fl)) IN
           IF link_content = None
           THEN [res |-> "None", target |-> "", rel |-> "", cache |-> cache]
           ELSE LET target_dir == Trim(FirstLine(Unwrap(link_content))) IN
                IF target_dir = ""
                THEN [res |-> "None", target |-> "", rel |-> "", cache |-> cache]
                ELSE ResolveTarget(Unwrap(fl), target_dir, path,
                        [k \in DOMAIN cache \cup {Unwrap(fl)} |->
                            IF k = Unwrap(fl) THEN target_dir ELSE cache[k]])
    : fl \in get_fuse_link_path(cache, path) }

\* a layer's answer: res is "Some", "None" (not applicable) or "Err"
Answer(res, data, entries) == [res |-> res, data |-> data, entries |-> entries]

\* try_read_through_fuse_link: the set of outcomes [ans, cache]
try_read_through_fuse_link(f, cache, path) ==
    { IF t.res # "Some" THEN [ans |-> Answer(t.res, "", {}), cache |-> t.cache]
      ELSE LET content == ReadFile(f, t.target) IN
           IF content = None THEN [ans |-> Answer("None", "", {}), cache |-> t.cache]
           ELSE [ans |-> Answer("Some", Unwrap(content), {}), cache |-> t.cache]
    : t \in get_fuse_link_target_path(f, cache, path) }

\* try_read_dir_through_fuse_link: the set of outcomes [ans, cache]
try_read_dir_through_fuse_link(f, cache, path) ==
    { IF t.res # "Some" THEN [ans |-> Answer(t.res, "", {}), cache |-> t.cache]
      ELSE LET target_entries == read_dir_direct(f, t.target)
               original_entries == read_dir_direct(f, path)
           IN  IF target_entries = None
               THEN [ans |-> Answer("Err", "", {}), cache |-> t.cache]
               ELSE IF original_entries = None
               THEN [ans |-> Answer("Some", "", Unwrap(target_entries)), cache |-> t.cache]
               ELSE [ans |-> Answer("Some", "",
                                { e \in Unwrap(original_entries) : e.name # "fuse.link" }
                                    \cup Unwrap(target_entries)),
                     cache |-> t.cache]
    : t \in get_fuse_link_target_path(f, cache, path) }

(***************************************************************************)
(* Lockfile model (package_lock.rs).  A lockfile text is a short string;   *)
(* PackageLock::from_json succeeds on the texts of LockFiles only.         *)
(***************************************************************************)
LockPackage(name, version, resolved, integrity, shasum) ==
    [name |-> name, version |-> version, resolved |-> resolved,
     integrity |-> integrity, shasum |-> shasum,
     dev |-> None, optional |-> None, os |-> None, cpu |-> None]

\* LockPackage::get_name
get_name(pkg, path) ==
    IF pkg.name # None THEN Unwrap(pkg.name)
    ELSE IF path = "" THEN "root"
    ELSE Skip(path, RFind(path, "/"))
\* LockPackage::get_version
get_version(pkg) == IF pkg.version # None THEN Unwrap(pkg.version) ELSE "unknown"

(***************************************************************************)
(* The registry: the archives it serves and the files inside them.         *)
(***************************************************************************)
UrlA == "https://r/a/-/a.tgz"
UrlB == "https://r/b/-/b.tgz"
UrlD == "https://r/d/-/d.tgz"
TgzA == "tgz-a"
TgzB == "tgz-b"
Garbage == "garbage"
\* an archive whose entries have no common first component
TgzMixed == "tgz-mixed"
\* an archive that holds directory entries only
TgzDirs == "tgz-dirs"

ArchiveEntry(path, is_file, contents) ==
    [path |-> path, is_file |-> is_file, contents |-> contents]
\* gzip + tar decoding of archive bytes: the entries in archive order,
\* None when the bytes are no gzip stream
Decode(bytes) ==
    IF bytes = TgzA
    THEN Some(<< ArchiveEntry("package", FALSE, ""),
                 ArchiveEntry("package/package.json", TRUE, "a/package.json"),
                 ArchiveEntry("package/index.js", TRUE, "a/index.js") >>)
    ELSE IF bytes = TgzB
    THEN Some(<< ArchiveEntry("package/package.json", TRUE, "b/package.json"),
                 ArchiveEntry("package/lib/x.js", TRUE, "b/lib/x.js") >>)
    ELSE IF bytes = TgzMixed
    THEN Some(<< ArchiveEntry("pkg/package.json", TRUE, "mixed/package.json"),
                 ArchiveEntry("lib/x.js", TRUE, "mixed/lib/x.js") >>)
    ELSE IF bytes = TgzDirs
    THEN Some(<< ArchiveEntry("package", FALSE, ""),
                 ArchiveEntry("package/lib", FALSE, "") >>)
    ELSE None

\* the archive a URL names on the registry
Published(url) ==
    IF url = UrlA THEN TgzA ELSE IF url = UrlD THEN TgzDirs ELSE TgzB

\* digests of the byte strings of the model
Sha512Base64(bytes) == "S5=" \o bytes
Sha1Hex(bytes) == "s1=" \o bytes

LockFiles ==
    ("lock-1" :>
        ((""  :> LockPackage(Some("proj"), Some("1.0.0"), None, None, None)) @@
         ("node_modules/a" :>
            LockPackage(None, Some("1.0.0"), Some(UrlA),
                        Some("sha512-" \o Sha512Base64(TgzA)), None)) @@
         ("node_modules/a/node_modules/b" :>
            LockPackage(None, Some("2.0.0"), Some(UrlB), None, Some(Sha1Hex(TgzB)))) @@
         ("node_modules/b" :>
            LockPackage(None, Some("2.0.0"), Some(UrlB), None, Some(Sha1Hex(TgzB))))))
    @@
    ("lock-2" :>
        ((""  :> LockPackage(Some("proj"), Some("1.0.0"), None, None, None)) @@
         ("node_modules/a" :>
            LockPackage(None, Some("1.0.0"), Some(UrlA), None, None)) @@
         ("node_modules/@s/b" :>
            LockPackage(Some("b"), Some("2.0.0"), Some(UrlB), None, None))))
    @@
    ("lock-3" :>
        ((""  :> LockPackage(Some("proj"), Some("1.0.0"), None, None, None)) @@
         ("node_modules/a" :>
            LockPackage(None, Some("1.0.0"), Some(UrlA), None, None)) @@
         ("node_modules/c" :>
            LockPackage(None, Some("3.0.0"), None, None, None))))
    @@
    ("lock-4" :>
        ((""  :> LockPackage(Some("proj"), Some("1.0.0"), None, None, None)) @@
         ("node_modules/a" :>
            LockPackage(None, Some("1.0.0"), Some(UrlA), None, None)) @@
         ("node_modules/b" :>
            [LockPackage(None, Some("2.0.0"), Some(UrlB), None, None)
                EXCEPT !.optional = Some(TRUE), !.cpu = Some("arm64")])))
    @@
    ("lock-5" :>
        ((""  :> LockPackage(Some("proj"), Some("1.0.0"), None, None, None)) @@
         ("node_modules/a" :>
            LockPackage(None, Some("1.0.0"), Some(UrlA), None, None)) @@
         ("node_modules/d" :>
            LockPackage(None, Some("4.0.0"), Some(UrlD), None, None))))

\* the lockfiles of the projects that install from a fresh store
ProjectLocks == { "lock-1", "lock-2" }

\* PackageLock::from_json
from_json(text) == IF text \in DOMAIN LockFiles THEN Some(LockFiles[text]) ELSE None

(***************************************************************************)
(* Registry-fs (registry_fs.rs)                                            *)
(***************************************************************************)
MAX_METADATA_CACHE_SIZE == 100000
MAX_FETCHED_DIRS_CACHE_SIZE == 5000

PackageMetadata(name, version, registry_url, install_path) ==
    [name |-> name, version |-> version, registry_url |-> registry_url,
     install_path |-> install_path]

RECURSIVE JoinWith(_, _)
JoinWith(pieces, sep) ==
    IF pieces = << >> THEN ""
    ELSE IF Len(pieces) = 1 THEN pieces[1]
    ELSE pieces[1] \o sep \o JoinWith(Tail(pieces), sep)

\* PackageMetadata::parse_registry_url
parse_registry_url(resolved) ==
    LET pieces == Split(resolved, "/") IN
    IF Len(pieces) >= 3 THEN JoinWith(SubSeq(pieces, 1, 3), "/")
    ELSE "https://registry.npmmirror.com"

\* extract_host
extract_host(url) ==
    LET pieces == Split(url, "/") IN IF Len(pieces) >= 3 THEN pieces[3] ELSE "unknown"

\* get_cache_file_path
get_cache_file_path(metadata, relative_path) ==
    Join(Join(Join(Join("/registry-fs", extract_host(metadata.registry_url)),
                   metadata.name), metadata.version), relative_path)

RECURSIVE Replace(_, _, _)
\* str::replace of one character
Replace(s, c, d) ==
    IF s = "" THEN ""
    ELSE (IF Char(s, 1) = c THEN d ELSE Char(s, 1)) \o Replace(Skip(s, 1), c, d)

\* get_cache_meta_path
get_cache_meta_path(metadata, subpath) ==
    Join(Join(Join(Join("/registry-fs", extract_host(metadata.registry_url)),
                   metadata.name), metadata.version),
         IF subpath = "" THEN ".meta-root.json"
         ELSE ".meta-" \o Replace(subpath, "/", "-") \o ".json")

\* PackageMetadata::file_list_url
file_list_url(metadata, subpath) ==
    metadata.registry_url \o "/" \o metadata.name \o "/" \o metadata.version \o "/files"
        \o (IF subpath = "" THEN "/"
            ELSE "/" \o TrimEndMatches(TrimStartMatches(subpath, "/"), "/") \o "/")
        \o "?meta"

\* PackageMetadata::file_content_url
file_content_url(metadata, file_path) ==
    metadata.registry_url \o "/" \o metadata.name \o "/" \o metadata.version \o "/files/"
        \o TrimStartMatches(file_path, "/")

Restrict(fn, keys) == [k \in keys |-> fn[k]]

\* check_metadata_cache_size: above twice the limit, HashMap::keys().take(n)
\* removes n entries in unspecified order; the set of possible results
check_metadata_cache_size(cache) ==
    IF Cardinality(DOMAIN cache) > MAX_METADATA_CACHE_SIZE * 2
    THEN { Restrict(cache, keep) :
             keep \in { k \in SUBSET DOMAIN cache :
                          Cardinality(k) = MAX_METADATA_CACHE_SIZE } }
    ELSE { cache }

\* check_metadata_cache_size that never evicts
evict_metadata_never(cache, max) == { cache }
\* check_metadata_cache_size under a limit of max entries: what an eviction
\* can leave of the cache
evict_metadata(cache, max) ==
    IF Cardinality(DOMAIN cache) > max * 2
    THEN { Restrict(cache, keep) :
             keep \in { k \in SUBSET DOMAIN cache : Cardinality(k) = max } }
    ELSE { cache }

\* check_fetched_dirs_cache_size: likewise, down to half the limit
check_fetched_dirs_cache_size(cache) ==
    IF Cardinality(cache) > MAX_FETCHED_DIRS_CACHE_SIZE
    THEN { k \in SUBSET cache : Cardinality(k) = MAX_FETCHED_DIRS_CACHE_SIZE \div 2 }
    ELSE { cache }

\* check_fetched_dirs_cache_size under a limit of max paths: above the limit,
\* HashSet::iter().take(n) removes all but max / 2 paths in unspecified order
evict_fetched(cache, max) ==
    IF Cardinality(cache) > max
    THEN { k \in SUBSET cache : Cardinality(k) = max \div 2 }
    ELSE { cache }

\* init_from_package_lock: the set of outcomes [ok, meta]
init_from_package_lock(f, meta, lock_file_path) ==
    LET lock_content == ReadFile(f, lock_file_path) IN
    IF lock_content = None THEN { [ok |-> FALSE, meta |-> meta] }
    ELSE LET package_lock == from_json(Unwrap(lock_content)) IN
         IF package_lock = None THEN { [ok |-> FALSE, meta |-> meta] }
         ELSE LET pk == Unwrap(package_lock)
                  added == { ip \in DOMAIN pk : ip # "" /\ pk[ip].resolved # None }
                  filled == [ip \in DOMAIN meta \cup added |->
                               IF ip \in added
                               THEN PackageMetadata(get_name(pk[ip], ip), get_version(pk[ip]),
                                        parse_registry_url(Unwrap(pk[ip].resolved)), ip)
                               ELSE meta[ip]]
              IN  { [ok |-> TRUE, meta |-> m] : m \in check_metadata_cache_size(filled) }

\* ensure_initialized: the set of outcomes [ok, meta]
ensure_initialized(f, meta) ==
    IF DOMAIN meta = {}
    THEN init_from_package_lock(f, meta, Join(Cwd, "package-lock.json"))
    ELSE { [ok |-> TRUE, meta |-> meta] }

\* the cwd-relative form of a path, as get_package_metadata computes it
RelativeToCwd(path_str) ==
    LET rel == StripPrefix(path_str, Cwd) IN
    IF rel # None THEN TrimStartMatches(Unwrap(rel), "/") ELSE path_str

\* the longest of a non-empty set of strings that are prefixes of one string
Longest(S) == CHOOSE x \in S : \A y \in S : Len(y) <= Len(x)

\* get_package_metadata: [md, meta], md the Option<PackageMetadata>
get_package_metadata(f, meta, path) ==
    LET relative_path_str == RelativeToCwd(path)
        hits == { ip \in DOMAIN meta : StartsWith(relative_path_str, ip) }
    IN  IF hits # {} THEN [md |-> Some(meta[Longest(hits)]), meta |-> meta]
        ELSE LET lock_content == ReadFile(f, Join(Cwd, "package-lock.json")) IN
             IF lock_content = None \/ from_json(Unwrap(lock_content)) = None
             THEN [md |-> None, meta |-> meta]
             ELSE LET pk == from_json(Unwrap(lock_content))[1]
                      found == { ip \in DOMAIN pk :
                                   /\ ip # ""
                                   /\ StartsWith(relative_path_str, ip)
                                   /\ pk[ip].resolved # None }
                  IN  IF found = {} THEN [md |-> None, meta |-> meta]
                      ELSE LET ip == Longest(found)
                               m == PackageMetadata(get_name(pk[ip], ip), get_version(pk[ip]),
                                        parse_registry_url(Unwrap(pk[ip].resolved)), ip)
                           IN  [md |-> Some(m),
                                meta |-> IF Cardinality(DOMAIN meta) < MAX_METADATA_CACHE_SIZE * 2
                                         THEN [k \in DOMAIN meta \cup {ip} |->
                                                 IF k = ip THEN m ELSE meta[k]]
                                         ELSE meta]

\* get_relative_path_in_package
get_relative_path_in_package(path, install_path) ==
    LET relative == StripPrefix(RelativeToCwd(path), install_path) IN
    IF relative # None THEN TrimStartMatches(Unwrap(relative), "/") ELSE ""

RECURSIVE ContainsStr(_, _)
\* str::contains of a substring
ContainsStr(s, sub) ==
    IF Len(s) < Len(sub) THEN FALSE
    ELSE StartsWith(s, sub) \/ ContainsStr(Skip(s, 1), sub)

(***************************************************************************)
(* The registry's HTTP endpoints.  A response is [kind, body]: kind is     *)
(* "transport" (the GET fails), "status" (non-2xx), "body" (the body       *)
(* cannot be read or parsed) or "ok".                                      *)
(***************************************************************************)
Response(kind, body) == [kind |-> kind, body |-> body]
FileEntry(path, file_type) == [path |-> path, file_type |-> file_type]

\* the regular files of the package a registry URL <base>/<name>/<version>/files/...
\* names, as package-relative path -> bytes
PackageFiles(url) ==
    LET pieces == Split(url, "/")
        entries == Unwrap(Decode(IF pieces[4] = "a" THEN TgzA ELSE TgzB))
        files == { i \in 1..Len(entries) : entries[i].is_file }
    IN  [ r \in { Skip(entries[i].path, Len("package/")) : i \in files } |->
            LET i == CHOOSE i \in files : entries[i].path = "package/" \o r
            IN  entries[i].contents ]

HttpKinds == { "transport", "status", "body", "ok" }

\* GET <base>/<name>/<version>/files/<rel> when the exchange goes as kind says:
\* a file the package does not have is a non-2xx answer
GetFile(url, kind) ==
    LET pieces == Split(url, "/")
        rel == JoinWith(SubSeq(pieces, 7, Len(pieces)), "/")
    IN  IF kind # "ok" THEN Response(kind, "")
        ELSE IF rel \in DOMAIN PackageFiles(url) THEN Response("ok", PackageFiles(url)[rel])
        ELSE Response("status", "")

RECURSIVE SetToSeq(_)
SetToSeq(S) ==
    IF S = {} THEN << >>
    ELSE LET x == CHOOSE x \in S : TRUE IN << x >> \o SetToSeq(S \ {x})

\* GET <base>/<name>/<version>/files/<sub>/?meta when the exchange goes as kind
\* says: the immediate children of <sub>, each with its full path
GetList(url, kind) ==
    LET pieces == Split(url, "/")
        sub == JoinWith(SubSeq(pieces, 7, Len(pieces) - 1), "/")
        pre == IF sub = "" THEN "" ELSE sub \o "/"
        under == { Skip(r, Len(pre)) : r \in { r \in DOMAIN PackageFiles(url) : StartsWith(r, pre) } }
        children == { FileEntry("/" \o pre \o Split(r, "/")[1],
                                IF Contains(r, "/") THEN "directory" ELSE "file") : r \in under }
    IN  IF kind # "ok" THEN Response(kind, << >>)
        ELSE IF under # {} THEN Response("ok", SetToSeq(children))
        ELSE Response("status", << >>)

\* serde_json::to_vec of a Vec<FileEntry>
RECURSIVE EntriesToJson(_)
EntriesToJson(entries) ==
    IF entries = << >> THEN ""
    ELSE entries[1].file_type \o ":" \o entries[1].path
         \o (IF Len(entries) > 1 THEN ";" ELSE "") \o EntriesToJson(Tail(entries))
to_vec(entries) == "[" \o EntriesToJson(entries) \o "]"

\* serde_json::from_slice::<Vec<FileEntry>>
from_slice(text) ==
    IF ~(StartsWith(text, "[") /\ EndsWith(text, "]")) THEN None
    ELSE LET inner == SubSeq(text, 2, Len(text) - 1)
             items == IF inner = "" THEN << >> ELSE Split(inner, ";")
         IN  IF \E i \in 1..Len(items) : ~Contains(items[i], ":") THEN None
             ELSE Some([ i \in 1..Len(items) |->
                           LET k == Find(items[i], ":") IN
                           FileEntry(Skip(items[i], k), SubSeq(items[i], 1, k - 1)) ])

\* fetch_file_list when a GET would go as kind says: [ok, entries, fs, http];
\* http is the kind of the response received, "none" when no GET was issued
fetch_file_list(f, metadata, subpath, kind) ==
    LET cache_path == get_cache_meta_path(metadata, subpath)
        cached_data == ReadFile(f, cache_path)
        http == GetList(file_list_url(metadata, subpath), kind)
    IN  IF cached_data # None /\ from_slice(Unwrap(cached_data)) # None
        THEN [ok |-> TRUE, entries |-> Unwrap(from_slice(Unwrap(cached_data))),
              fs |-> f, http |-> "none"]
        ELSE IF http.kind # "ok"
        THEN [ok |-> FALSE, entries |-> << >>, fs |-> f, http |-> http.kind]
        ELSE LET mk == CreateDirAll(f, Unwrap(Parent(cache_path)))
                 wr == WriteFile(mk.fs, cache_path, to_vec(http.body))
             IN  [ok |-> TRUE, entries |-> http.body, fs |-> wr.fs, http |-> "ok"]

\* the outcome [ans, meta, fs, http] of a registry-fs file read
RegistryRead(res, data, meta, f, http) ==
    [ans |-> Answer(res, data, {}), meta |-> meta, fs |-> f, http |-> http]

\* the cache lookup serving whatever file is at the cache path, empty or not
read_cached_or_fetch_any(f, meta, cache_path, cached_content, http) ==
    IF cached_content # None
    THEN RegistryRead("Some", Unwrap(cached_content), meta, f, "none")
    ELSE IF http.kind = "transport" THEN RegistryRead("Err", "", meta, f, http.kind)
    ELSE IF http.kind = "status" THEN RegistryRead("None", "", meta, f, http.kind)
    ELSE IF http.kind = "body" THEN RegistryRead("Err", "", meta, f, http.kind)
    ELSE RegistryRead("Some", http.body, meta,
            WriteFile(CreateDirAll(f, Unwrap(Parent(cache_path))).fs, cache_path, http.body).fs,
            "ok")
\* try_read_through_registry from the cache lookup on: the cached copy if it
\* is not empty, else the GET and the write of what it delivered
read_cached_or_fetch(f, meta, cache_path, cached_content, http) ==
    IF cached_content # None /\ Unwrap(cached_content) # ""
    THEN RegistryRead("Some", Unwrap(cached_content), meta, f, "none")
    ELSE IF http.kind = "transport" THEN RegistryRead("Err", "", meta, f, http.kind)
    ELSE IF http.kind = "status" THEN RegistryRead("None", "", meta, f, http.kind)
    ELSE IF http.kind = "body" THEN RegistryRead("Err", "", meta, f, http.kind)
    ELSE RegistryRead("Some", http.body, meta,
            WriteFile(CreateDirAll(f, Unwrap(Parent(cache_path))).fs, cache_path, http.body).fs,
            "ok")

\* try_read_through_registry once the path inside the package is known
read_in_package(f, meta, metadata, relative_path, kind) ==
    IF relative_path = "" THEN RegistryRead("None", "", meta, f, "none")
    ELSE read_cached_or_fetch(f, meta,
            get_cache_file_path(metadata, relative_path),
            ReadFile(f, get_cache_file_path(metadata, relative_path)),
            GetFile(file_content_url(metadata, relative_path), kind))

\* try_read_through_registry once get_package_metadata has answered g
read_with_metadata(f, g, path, kind) ==
    IF g.md = None THEN RegistryRead("None", "", g.meta, f, "none")
    ELSE read_in_package(f, g.meta, Unwrap(g.md),
            get_relative_path_in_package(path, Unwrap(g.md).install_path), kind)

\* try_read_through_registry when a GET would go as kind says:
\* outcomes [ans, meta, fs, http]
try_read_through_registry(f, meta, path, kind) ==
    { IF ~init.ok THEN RegistryRead("Err", "", init.meta, f, "none")
      ELSE read_with_metadata(f, get_package_metadata(f, init.meta, path), path, kind)
    : init \in ensure_initialized(f, meta) }

\* is_cwd
is_cwd(path) ==
    \/ PathStartsWith(path, Cwd) /\ PathStartsWith(Cwd, path)
    \/ path = TrimEndMatches(Cwd, "/") \o "."
    \/ path = TrimEndMatches(Cwd, "/") \o "/."
\* is_root_node_modules
is_root_node_modules(path) ==
    LET root == Join(Cwd, "node_modules") IN
    PathStartsWith(path, root) /\ PathStartsWith(root, path)
\* is_scope_directory
is_scope_directory(path) ==
    LET after_nm == StripPrefix(RelativeToCwd(path), "node_modules/") IN
    IF after_nm # None /\ StartsWith(Unwrap(after_nm), "@") /\ ~Contains(Unwrap(after_nm), "/")
    THEN after_nm ELSE None

Names(o) == IF o = None THEN {} ELSE { e.name : e \in Unwrap(o) }
Directories(names) == { [name |-> n, dir |-> TRUE] : n \in names }

\* handle_scope_directory: outcomes [ans, meta]
handle_scope_directory(f, meta, path, scope_name) ==
    { IF ~init.ok THEN [ans |-> Answer("Err", "", {}), meta |-> init.meta]
      ELSE LET scope_prefix == "node_modules/" \o scope_name \o "/"
               packages_in_scope ==
                   { Skip(ip, Len(scope_prefix)) :
                       ip \in { ip \in DOMAIN init.meta :
                                  /\ StartsWith(ip, scope_prefix)
                                  /\ ~Contains(Skip(ip, Len(scope_prefix)), "/")
                                  /\ ~ContainsStr(Skip(ip, Len(scope_prefix)), "node_modules") } }
           IN  [ans |-> Answer("Some", "",
                            Directories(packages_in_scope \cup Names(read_dir_direct(f, path)))),
                meta |-> init.meta]
    : init \in ensure_initialized(f, meta) }

\* handle_root_node_modules: outcomes [ans, meta]
handle_root_node_modules(f, meta, path) ==
    { LET lock_content == ReadFile(f, Join(Cwd, "package-lock.json")) IN
      IF ~init.ok \/ lock_content = None \/ from_json(Unwrap(lock_content)) = None
      THEN [ans |-> Answer("Err", "", {}), meta |-> init.meta]
      ELSE LET pk == from_json(Unwrap(lock_content))[1]
               first_level ==
                   { ip \in DOMAIN pk :
                       /\ ip # "" /\ StartsWith(ip, "node_modules/")
                       /\ ~ContainsStr(Skip(ip, Len("node_modules/")), "node_modules") }
               package_name(ip) ==
                   LET after_nm == Skip(ip, Len("node_modules/"))
                       pieces == Split(after_nm, "/")
                   IN  IF StartsWith(after_nm, "@")
                       THEN JoinWith(SubSeq(pieces, 1, IF Len(pieces) < 2 THEN Len(pieces) ELSE 2), "/")
                       ELSE pieces[1]
           IN  [ans |-> Answer("Some", "",
                            Directories({ package_name(ip) : ip \in first_level }
                                        \cup Names(read_dir_direct(f, path)))),
                meta |-> init.meta]
    : init \in ensure_initialized(f, meta) }

\* the translation of a fetched listing into directory entries
VirtualEntries(entries, relative_path) ==
    LET entry_relative(e) ==
            LET clean == TrimStartMatches(e.path, "/")
                stripped == StripPrefix(clean, relative_path \o "/")
            IN  IF relative_path # "" /\ stripped # None THEN Unwrap(stripped) ELSE clean
    IN  { [name |-> entry_relative(entries[i]), dir |-> entries[i].file_type = "directory"] :
            i \in { i \in 1..Len(entries) : ~Contains(entry_relative(entries[i]), "/") } }

\* the outcome [ans, meta, fs, fetched, http] of a registry-fs directory read
RegistryReadDir(res, entries, meta, f, fetched, http) ==
    [ans |-> Answer(res, "", entries), meta |-> meta, fs |-> f, fetched |-> fetched,
     http |-> http]

\* try_read_dir_through_registry of the working directory: its entries with a
\* virtual node_modules laid over them
read_dir_cwd(f, meta, fetched, listed) ==
    RegistryReadDir("Some",
        { e \in (IF listed = None THEN {} ELSE Unwrap(listed)) : e.name # "node_modules" }
            \cup { [name |-> "node_modules", dir |-> TRUE] },
        meta, f, fetched, "none")

\* try_read_dir_through_registry from the fetched-directories check on;
\* listed is the directory on storage, fl what fetch_file_list answers
read_dir_fetched_or_list(f, meta, fetched, path, relative_path, listed, fl) ==
    IF path \in fetched
    THEN { IF listed = None THEN RegistryReadDir("Err", {}, meta, f, fetched, "none")
           ELSE RegistryReadDir("Some", Unwrap(listed), meta, f, fetched, "none") }
    ELSE IF ~fl.ok THEN { RegistryReadDir("Err", {}, meta, fl.fs, fetched, fl.http) }
    ELSE { RegistryReadDir("Some", VirtualEntries(fl.entries, relative_path),
                           meta, fl.fs, kept, fl.http) :
             kept \in check_fetched_dirs_cache_size(fetched \cup { path }) }

\* try_read_dir_through_registry once the path inside the package is known
read_dir_in_package(f, meta, fetched, path, metadata, relative_path, kind) ==
    read_dir_fetched_or_list(f, meta, fetched, path, relative_path,
        read_dir_direct(f, path), fetch_file_list(f, metadata, relative_path, kind))

\* try_read_dir_through_registry once get_package_metadata has answered g
read_dir_with_metadata(f, g, fetched, path, kind) ==
    IF g.md = None THEN { RegistryReadDir("None", {}, g.meta, f, fetched, "none") }
    ELSE read_dir_in_package(f, g.meta, fetched, path, Unwrap(g.md),
            get_relative_path_in_package(path, Unwrap(g.md).install_path), kind)

\* try_read_dir_through_registry when a GET would go as kind says:
\* outcomes [ans, meta, fs, fetched, http]
try_read_dir_through_registry(f, meta, fetched, path, kind) ==
    IF is_cwd(path)
    THEN { read_dir_cwd(f, meta, fetched, read_dir_direct(f, path)) }
    ELSE IF is_root_node_modules(path)
    THEN { [ans |-> o.ans, meta |-> o.meta, fs |-> f, fetched |-> fetched, http |-> "none"] :
             o \in handle_root_node_modules(f, meta, path) }
    ELSE IF is_scope_directory(path) # None
    THEN { [ans |-> o.ans, meta |-> o.meta, fs |-> f, fetched |-> fetched, http |-> "none"] :
             o \in handle_scope_directory(f, meta, path, Unwrap(is_scope_directory(path))) }
    ELSE UNION {
      IF ~init.ok THEN { RegistryReadDir("Err", {}, init.meta, f, fetched, "none") }
      ELSE read_dir_with_metadata(f, get_package_metadata(f, init.meta, path),
                                  fetched, path, kind)
      : init \in ensure_initialized(f, meta) }

\* clear_cache: both in-memory caches are emptied
clear_cache(meta, fetched) == [meta |-> << >>, fetched |-> {}]

\* get_cache_stats: the number of cached package descriptors
get_cache_stats(meta) == Cardinality(DOMAIN meta)

\* clear_all_registry_cache: /registry-fs is removed from storage (a failure
\* is only logged); the in-memory caches are not touched
clear_all_registry_cache(f, meta, fetched) ==
    [fs |-> RemoveDirAll(f, "/registry-fs").fs, meta |-> meta, fetched |-> fetched]

(***************************************************************************)
(* Read orchestrator (lib.rs): read and read_dir, one layer per step.      *)
(* rd.trace lists, in order, the layers the call has consulted and what    *)
(* each answered.                                                          *)
(***************************************************************************)
Pending == Answer("Pending", "", {})
IdleRead == [pc |-> "idle", path |-> "", dir |-> FALSE, trace |-> << >>, out |-> Pending]

\* a read that consults the next layer whatever the layer answered
read_next_regardless(layer, res) ==
    IF layer = "registry" THEN "fuse"
    ELSE IF layer = "fuse" THEN "direct"
    ELSE "done"

\* where read / read_dir go after a layer has answered
read_next(layer, res) ==
    IF res # "None" THEN "done"
    ELSE IF layer = "registry" THEN "fuse"
    ELSE "direct"

Consulted(layer, ans, uninit, http) ==
    [layer |-> layer, res |-> ans.res, uninit |-> uninit, http |-> http]

\* the registry layer could not initialise itself when the call reached it
Uninitialised ==
    /\ DOMAIN PACKAGE_METADATA_CACHE = {}
    /\ \/ ReadFile(fs, Join(Cwd, "package-lock.json")) = None
       \/ from_json(Unwrap(ReadFile(fs, Join(Cwd, "package-lock.json")))) = None

ReadStart(path, dir) ==
    /\ rd.pc = "idle"
    /\ rd' = [pc |-> "registry", path |-> prepare_path(path), dir |-> dir,
              trace |-> << >>, out |-> Pending]
    /\ UNCHANGED <<TAR_CACHE, tc, fs, FUSE_LINK_CACHE, PACKAGE_METADATA_CACHE, FETCHED_DIRS_CACHE,
                   linked, inst, tasks, gets, io>>

Answered(layer, ans, http) ==
    rd' = [rd EXCEPT !.pc = read_next(layer, ans.res),
                     !.trace = Append(@, Consulted(layer, ans, Uninitialised, http)),
                     !.out = IF read_next(layer, ans.res) = "done" THEN ans ELSE @]

\* registry_fs::try_read_through_registry / try_read_dir_through_registry
ReadRegistry ==
    /\ rd.pc = "registry"
    /\ \E kind \in HttpKinds :
        IF rd.dir
        THEN \E o \in try_read_dir_through_registry(fs, PACKAGE_METADATA_CACHE,
                                                    FETCHED_DIRS_CACHE, rd.path, kind) :
                /\ Answered("registry", o.ans, o.http)
                /\ fs' = o.fs
                /\ PACKAGE_METADATA_CACHE' = o.meta
                /\ FETCHED_DIRS_CACHE' = o.fetched
        ELSE \E o \in try_read_through_registry(fs, PACKAGE_METADATA_CACHE, rd.path, kind) :
                /\ Answered("registry", o.ans, o.http)
                /\ fs' = o.fs
                /\ PACKAGE_METADATA_CACHE' = o.meta
                /\ FETCHED_DIRS_CACHE' = FETCHED_DIRS_CACHE
    /\ UNCHANGED <<TAR_CACHE, tc, FUSE_LINK_CACHE, linked, inst, tasks, gets, io>>

\* fuse::try_read_through_fuse_link / try_read_dir_through_fuse_link
ReadFuse ==
    /\ rd.pc = "fuse"
    /\ \E o \in (IF rd.dir THEN try_read_dir_through_fuse_link(fs, FUSE_LINK_CACHE, rd.path)
                  ELSE try_read_through_fuse_link(fs, FUSE_LINK_CACHE, rd.path)) :
        /\ Answered("fuse", o.ans, "none")
        /\ FUSE_LINK_CACHE' = o.cache
    /\ UNCHANGED <<TAR_CACHE, tc, fs, PACKAGE_METADATA_CACHE, FETCHED_DIRS_CACHE, linked, inst, tasks, gets, io>>

\* the direct storage read that ends read / read_dir
ReadDirect ==
    /\ rd.pc = "direct"
    /\ LET content == ReadFile(fs, rd.path)
           entries == read_dir_direct(fs, rd.path)
       IN  Answered("direct",
                    IF rd.dir
                    THEN (IF entries = None THEN Answer("Err", "", {})
                          ELSE Answer("Some", "", Unwrap(entries)))
                    ELSE (IF content = None THEN Answer("Err", "", {})
                          ELSE Answer("Some", Unwrap(content), {})),
                    "none")
    /\ UNCHANGED <<TAR_CACHE, tc, fs, FUSE_LINK_CACHE, PACKAGE_METADATA_CACHE, FETCHED_DIRS_CACHE,
                   linked, inst, tasks, gets, io>>

\* the call returns to its caller
ReadReturn ==
    /\ rd.pc = "done"
    /\ rd' = IdleRead
    /\ UNCHANGED <<TAR_CACHE, tc, fs, FUSE_LINK_CACHE, PACKAGE_METADATA_CACHE, FETCHED_DIRS_CACHE,
                   linked, inst, tasks, gets, io>>

\* lib.rs clear_registry_cache
ClearRegistryCacheCall ==
    /\ LET o == clear_cache(PACKAGE_METADATA_CACHE, FETCHED_DIRS_CACHE) IN
        /\ PACKAGE_METADATA_CACHE' = o.meta
        /\ FETCHED_DIRS_CACHE' = o.fetched
    /\ UNCHANGED <<TAR_CACHE, tc, fs, FUSE_LINK_CACHE, rd, linked, inst, tasks, gets, io>>

\* lib.rs clear_all_registry_cache
ClearAllRegistryCacheCall ==
    /\ LET o == clear_all_registry_cache(fs, PACKAGE_METADATA_CACHE, FETCHED_DIRS_CACHE) IN
        /\ fs' = o.fs
        /\ PACKAGE_METADATA_CACHE' = o.meta
        /\ FETCHED_DIRS_CACHE' = o.fetched
    /\ UNCHANGED <<TAR_CACHE, tc, FUSE_LINK_CACHE, rd, linked, inst, tasks, gets, io>>

(***************************************************************************)
(* The public mutators (lib.rs): each forwards its arguments to storage.   *)
(***************************************************************************)
\* write with the "try fuse link first" of its TODO carried out: the bytes
\* go to the target the sentinel on storage names for the path
write_through_fuse_link(f, path, content) ==
    LET t == CHOOSE t \in get_fuse_link_target_path(f, << >>, prepare_path(path)) : TRUE
    IN  IF t.res = "Some" THEN WriteFile(f, t.target, content)
        ELSE WriteFile(f, path, content)
\* write
write(f, path, content) == WriteFile(f, path, content)
\* create_dir
create_dir(f, path) == CreateDir(f, path)
\* create_dir_all
create_dir_all(f, path) == CreateDirAll(f, path)
\* copy
copy(f, from, to) == CopyFile(f, from, to)
\* remove_file
remove_file(f, path) == RemoveFile(f, path)
\* remove_dir
remove_dir(f, path) == RemoveDir(f, path)
\* remove_dir_all
remove_dir_all(f, path) == RemoveDirAll(f, path)

\* a client calls one of the mutators: storage changes as the call says,
\* nothing else does
Mutated(o) ==
    /\ fs' = o.fs
    /\ UNCHANGED <<FUSE_LINK_CACHE, PACKAGE_METADATA_CACHE, FETCHED_DIRS_CACHE,
                   rd, linked, inst, tasks, gets, io, TAR_CACHE, tc>>
WriteCall(path, content) == Mutated(write(fs, path, content))
CreateDirCall(path) == Mutated(create_dir(fs, path))
CreateDirAllCall(path) == Mutated(create_dir_all(fs, path))
CopyCall(from, to) == Mutated(copy(fs, from, to))
RemoveFileCall(path) == Mutated(remove_file(fs, path))
RemoveDirCall(path) == Mutated(remove_dir(fs, path))
RemoveTreeCall(path) == Mutated(remove_dir_all(fs, path))

(***************************************************************************)
(* Installer (package_manager.rs, pack.rs)                                 *)
(***************************************************************************)
\* verify_integrity falling back to the shasum when the sha512 digest differs
verify_integrity_either(file_bytes, integrity, shasum) ==
    \/ /\ integrity # None /\ StripPrefix(Unwrap(integrity), "sha512-") # None
       /\ Sha512Base64(file_bytes) = Unwrap(StripPrefix(Unwrap(integrity), "sha512-"))
    \/ /\ shasum # None
       /\ Sha1Hex(file_bytes) = Unwrap(shasum)
\* pack::verify_integrity
verify_integrity(file_bytes, integrity, shasum) ==
    IF integrity # None /\ StripPrefix(Unwrap(integrity), "sha512-") # None
    THEN Sha512Base64(file_bytes) = Unwrap(StripPrefix(Unwrap(integrity), "sha512-"))
    ELSE IF shasum # None THEN Sha1Hex(file_bytes) = Unwrap(shasum)
    ELSE FALSE

\* PackagePaths::new
PackagePaths(name, tgz_url, path_key) ==
    LET url_path == Split(tgz_url, "/")
        tgz_file_name == url_path[Len(url_path)]
        base == "/stores/" \o name \o "/-/" \o tgz_file_name
    IN  [tgz_store_path |-> base,
         unpacked_dir |-> base \o "-unpack",
         resolved_marker |-> base \o "-unpack._resolved",
         link_target_dir |-> path_key]

\* the tuple install_deps builds for the lockfile entry at path_key, with its paths
package_info(lock, path_key) ==
    LET pkg == lock[path_key]
        name == get_name(pkg, path_key)
    IN  [name |-> name, version |-> get_version(pkg), tgz_url |-> pkg.resolved,
         integrity |-> pkg.integrity, shasum |-> pkg.shasum, path_key |-> path_key,
         paths |-> IF pkg.resolved = None THEN None
                   ELSE Some(PackagePaths(name, Unwrap(pkg.resolved), path_key))]

\* the cache check of install_deps and install_package: the marker is a file
\* and the unpack path is a directory
is_cached_untyped(f, paths) == Exists(f, paths.resolved_marker) /\ Exists(f, paths.unpacked_dir)
is_cached(f, paths) == IsFile(f, paths.resolved_marker) /\ IsDir(f, paths.unpacked_dir)

\* save_tgz: [ok, fs]
save_tgz(f, path, bytes) ==
    LET parent_dir == Parent(path)
        mk == IF parent_dir = None THEN [ok |-> TRUE, fs |-> f]
              ELSE CreateDirAll(f, Unwrap(parent_dir))
        wr == WriteFile(mk.fs, path, bytes)
    IN  IF ~mk.ok THEN [ok |-> FALSE, fs |-> f]
        ELSE IF ~wr.ok THEN [ok |-> FALSE, fs |-> mk.fs]
        ELSE [ok |-> TRUE, fs |-> wr.fs]

\* serde_json::to_string_pretty of the root lockfile entry
to_string_pretty(pkg) ==
    "{" \o (IF pkg.name = None THEN "" ELSE "name:" \o Unwrap(pkg.name))
        \o (IF pkg.version = None THEN "" ELSE ",version:" \o Unwrap(pkg.version)) \o "}"

\* ensure_package_json that stores the lockfile text next to package.json
ensure_package_json_and_lock(f, lock) ==
    IF Exists(f, "./package.json") \/ "" \notin DOMAIN lock THEN [ok |-> TRUE, fs |-> f]
    ELSE LET mk == CreateDirAll(f, "./node_modules")
             wr == WriteFile(mk.fs, "./package.json", to_string_pretty(lock[""]))
         IN  IF ~mk.ok THEN [ok |-> FALSE, fs |-> f]
             ELSE IF ~wr.ok THEN [ok |-> FALSE, fs |-> mk.fs]
             ELSE [ok |-> TRUE, fs |-> WriteFile(wr.fs, "./package-lock.json", "lock").fs]
\* ensure_package_json: [ok, fs]
ensure_package_json(f, lock) ==
    IF Exists(f, "./package.json") \/ "" \notin DOMAIN lock THEN [ok |-> TRUE, fs |-> f]
    ELSE LET mk == CreateDirAll(f, "./node_modules")
             wr == WriteFile(mk.fs, "./package.json", to_string_pretty(lock[""]))
         IN  IF ~mk.ok THEN [ok |-> FALSE, fs |-> f]
             ELSE IF ~wr.ok THEN [ok |-> FALSE, fs |-> mk.fs]
             ELSE [ok |-> TRUE, fs |-> wr.fs]

\* determine_root_prefix
determine_root_prefix(entries) ==
    LET idx == 1..Len(entries)
        roots == { i \in idx :
                     /\ EndsWith(entries[i].path, "/package.json")
                     /\ Unwrap(StripSuffix(entries[i].path, "/package.json")) # ""
                     /\ ~Contains(Unwrap(StripSuffix(entries[i].path, "/package.json")), "/") }
    IN  IF \E i \in idx : entries[i].path = "package/package.json" THEN Some("package")
        ELSE IF \E i \in idx : entries[i].path = "package.json" THEN None
        ELSE IF roots # {}
        THEN LET i == CHOOSE i \in roots :
                        \A j \in roots :
                            \/ Len(entries[i].path) < Len(entries[j].path)
                            \/ Len(entries[i].path) = Len(entries[j].path) /\ i <= j
             IN  StripSuffix(entries[i].path, "/package.json")
        ELSE IF \E i \in idx : StartsWith(entries[i].path, "package/") THEN Some("package")
        ELSE None

\* calculate_output_path: None for an entry that is skipped
calculate_output_path(entry_path, extract_dir, root_prefix) ==
    IF root_prefix = None THEN Some(Join(extract_dir, entry_path))
    ELSE LET stripped == StripPrefix(entry_path, Unwrap(root_prefix) \o "/") IN
         IF stripped # None THEN Some(Join(extract_dir, Unwrap(stripped)))
         ELSE IF entry_path = Unwrap(root_prefix) THEN None
         ELSE Some(Join(extract_dir, entry_path))

\* the writes extract_entries performs for decoded entries, in order:
\* [out_path, contents] of every file entry that is not skipped
extract_entries(entries, extract_dir) ==
    LET root_prefix == determine_root_prefix(entries)
        out(e) == calculate_output_path(e.path, extract_dir, root_prefix)
        kept == SelectSeq(entries, LAMBDA e : e.is_file /\ out(e) # None)
    IN  [ i \in 1..Len(kept) |-> [out_path |-> Unwrap(out(kept[i])), contents |-> kept[i].contents] ]

\* download_tgz verifies an existing store file, and the downloaded bytes,
\* only when a hash is given
must_verify_never(integrity, shasum) == FALSE
must_verify(integrity, shasum) == integrity # None \/ shasum # None

(***************************************************************************)
(* install_deps as a process.  inst is the call: pc "idle" (no call in     *)
(* progress), "link" (step 2, linking the cached packages) or "download"   *)
(* (step 3, the buffer_unordered stream); lock is the lockfile text the    *)
(* client installs; result is how the last call ended.  tasks maps the     *)
(* path_key of every package to download to its install_package future:    *)
(* pc "queued" (not polled yet), the await it is suspended at ("link",      *)
(* "fetch", "get", "save", "extract", "marker"), "done", "failed", or       *)
(* "dropped" (the stream was dropped while the future was pending).        *)
(* call names the function the client called; error is the message of an   *)
(* error raised before step 2 ("" otherwise).                              *)
(***************************************************************************)
IdleInstall == [pc |-> "idle", lock |-> "", max |-> 0, cached |-> {},
                result |-> "none", runs |-> 0, call |-> "", error |-> ""]

\* the message of serde_json for a text that is no lockfile
SerdeError == "expected value"

\* the error of install_deps and install_package for a package without URL
no_resolved_field_unnamed(name, version) == ": no resolved field"
no_resolved_field(name, version) == name \o "@" \o version \o ": no resolved field"

MaxInstallRuns == 2

Task(pc, bytes, idx) == [pc |-> pc, bytes |-> bytes, idx |-> idx]
InFlight == { "link", "fetch", "get", "save", "extract", "marker" }
NoIo == [stored |-> {}, extracted |-> {}, rejected |-> FALSE,
         marker |-> FALSE, sentinel |-> FALSE]

\* the lockfile entry of a task of the call in progress, and its paths
InfoOf(k) == package_info(Unwrap(from_json(inst.lock)), k)
PathsOf(k) == Unwrap(InfoOf(k).paths)

\* the call returns (or is dropped): every pending future is dropped with it
EndRun(result, failed) ==
    /\ inst' = [inst EXCEPT !.pc = "idle", !.result = result, !.cached = {}]
    /\ tasks' = [k \in DOMAIN tasks |->
                   IF k \in failed THEN Task("failed", "", 0)
                   ELSE IF tasks[k].pc \in InFlight \cup { "queued" } THEN Task("dropped", "", 0)
                   ELSE tasks[k]]

\* step 1 of install_deps with entries without resolved field left out of
\* the plan
filter_packages_skipping(f, lock) ==
    LET keys == DOMAIN lock \ { "" }
        resolved == { k \in keys : lock[k].resolved # None }
        cached == { k \in resolved : is_cached(f, Unwrap(package_info(lock, k).paths)) }
    IN  [unresolved |-> {}, cached |-> cached, to_download |-> resolved \ cached]
\* step 1 of install_deps: the entries without resolved field (the first one
\* met ends the call), the cached packages and the packages to download
filter_packages(f, lock) ==
    LET keys == DOMAIN lock \ { "" }
        unresolved == { k \in keys : lock[k].resolved = None }
        cached == { k \in keys \ unresolved :
                      is_cached(f, Unwrap(package_info(lock, k).paths)) }
    IN  [unresolved |-> unresolved, cached |-> cached,
         to_download |-> (keys \ unresolved) \ cached]

\* install_deps, step 1 done: the call ends at an entry without resolved
\* field, or goes on with the cached packages and the packages to download
StartPlanned(text, max, lock, plan) ==
    IF plan.unresolved # {}
    THEN /\ \E k \in plan.unresolved :
             inst' = [inst EXCEPT !.result = "err", !.runs = @ + 1, !.max = max,
                                  !.call = "install_deps",
                                  !.error = no_resolved_field(package_info(lock, k).name,
                                                              package_info(lock, k).version)]
         /\ tasks' = << >> /\ gets' = << >> /\ io' = << >>
    ELSE /\ inst' = [pc |-> IF plan.cached = {} THEN "download" ELSE "link",
                     lock |-> text, max |-> max, cached |-> plan.cached,
                     result |-> "none", runs |-> inst.runs + 1,
                     call |-> "install_deps", error |-> ""]
         /\ tasks' = [k \in plan.to_download |-> Task("queued", "", 0)]
         /\ gets' = [u \in { Unwrap(lock[k].resolved) :
                                k \in plan.cached \cup plan.to_download } |-> 0]
         /\ io' = [k \in plan.cached \cup plan.to_download |-> NoIo]

\* install_deps once the lockfile is parsed: pj is what ensure_package_json did
StartParsed(text, max, lock, pj) ==
    /\ fs' = pj.fs
    /\ IF ~pj.ok
       THEN /\ inst' = [inst EXCEPT !.result = "err", !.runs = @ + 1, !.max = max,
                                    !.call = "install_deps", !.error = ""]
            /\ tasks' = << >> /\ gets' = << >> /\ io' = << >>
       ELSE StartPlanned(text, max, lock, filter_packages(pj.fs, lock))

\* install_deps up to the end of step 1: parse, ensure_package_json, classify
InstallStart(text, max) ==
    /\ inst.pc = "idle" /\ rd.pc = "idle"
    /\ inst.runs < MaxInstallRuns
    /\ IF from_json(text) = None
       THEN /\ inst' = [inst EXCEPT !.result = "err", !.runs = @ + 1, !.max = max,
                                    !.call = "install_deps", !.error = SerdeError]
            /\ tasks' = << >> /\ gets' = << >> /\ io' = << >>
            /\ fs' = fs
       ELSE StartParsed(text, max, Unwrap(from_json(text)),
                        ensure_package_json(fs, Unwrap(from_json(text))))
    /\ UNCHANGED <<TAR_CACHE, tc, FUSE_LINK_CACHE, PACKAGE_METADATA_CACHE, FETCHED_DIRS_CACHE, rd, linked>>

\* step 2: one of the try_join_all futures links a cached package
LinkCached(k) ==
    /\ inst.pc = "link" /\ k \in inst.cached
    /\ \E o \in fuse_link(fs, FUSE_LINK_CACHE, PathsOf(k).unpacked_dir, PathsOf(k).link_target_dir) :
        /\ fs' = o.fs
        /\ FUSE_LINK_CACHE' = o.cache
        /\ IF o.ok
           THEN /\ inst' = [inst EXCEPT !.cached = @ \ { k },
                                        !.pc = IF inst.cached = { k } THEN "download" ELSE "link"]
                /\ io' = [io EXCEPT ![k].sentinel = TRUE]
                /\ tasks' = tasks
           ELSE /\ EndRun("err", {})
                /\ io' = io
    /\ UNCHANGED <<TAR_CACHE, tc, PACKAGE_METADATA_CACHE, FETCHED_DIRS_CACHE, rd, linked, gets>>

\* step 3: the stream polls a new install_package future, which runs up to
\* the cache check
TaskStart(k) ==
    /\ inst.pc = "download"
    /\ k \in DOMAIN tasks /\ tasks[k].pc = "queued"
    /\ Cardinality({ q \in DOMAIN tasks : tasks[q].pc \in InFlight }) < inst.max
    /\ tasks' = [tasks EXCEPT ![k] =
                    Task(IF is_cached(fs, PathsOf(k)) THEN "link" ELSE "fetch", "", 0)]
    /\ UNCHANGED <<TAR_CACHE, tc, fs, FUSE_LINK_CACHE, PACKAGE_METADATA_CACHE, FETCHED_DIRS_CACHE,
                   rd, linked, inst, gets, io>>

\* download_tgz: an existing store file is reused when a hash is given and matches
TaskFetch(k) ==
    /\ inst.pc = "download"
    /\ k \in DOMAIN tasks /\ tasks[k].pc = "fetch"
    /\ LET existing_bytes == ReadFile(fs, PathsOf(k).tgz_store_path) IN
       tasks' = [tasks EXCEPT ![k] =
                    IF /\ existing_bytes # None
                       /\ must_verify(InfoOf(k).integrity, InfoOf(k).shasum)
                       /\ verify_integrity(Unwrap(existing_bytes), InfoOf(k).integrity, InfoOf(k).shasum)
                    THEN Task("extract", Unwrap(existing_bytes), 0)
                    ELSE Task("get", "", 0)]
    /\ UNCHANGED <<TAR_CACHE, tc, fs, FUSE_LINK_CACHE, PACKAGE_METADATA_CACHE, FETCHED_DIRS_CACHE,
                   rd, linked, inst, gets, io>>

\* download_tgz: download_bytes, then the verification of what was downloaded.
\* The GET fails, or delivers the published archive or other bytes.
TaskGet(k) ==
    /\ inst.pc = "download"
    /\ k \in DOMAIN tasks /\ tasks[k].pc = "get"
    /\ LET url == Unwrap(InfoOf(k).tgz_url) IN
       \E response \in { None, Some(Published(url)), Some(Garbage) } :
        /\ gets' = [gets EXCEPT ![url] = @ + 1]
        /\ IF response = None
           THEN EndRun("err", { k }) /\ io' = io
           ELSE IF /\ must_verify(InfoOf(k).integrity, InfoOf(k).shasum)
                   /\ ~verify_integrity(Unwrap(response), InfoOf(k).integrity, InfoOf(k).shasum)
           THEN EndRun("err", { k }) /\ io' = [io EXCEPT ![k].rejected = TRUE]
           ELSE /\ tasks' = [tasks EXCEPT ![k] = Task("save", Unwrap(response), 0)]
                /\ UNCHANGED <<inst, io>>
    /\ UNCHANGED <<TAR_CACHE, tc, fs, FUSE_LINK_CACHE, PACKAGE_METADATA_CACHE, FETCHED_DIRS_CACHE, rd, linked>>

\* download_tgz: save_tgz of the downloaded bytes
TaskSave(k) ==
    /\ inst.pc = "download"
    /\ k \in DOMAIN tasks /\ tasks[k].pc = "save"
    /\ LET sv == save_tgz(fs, PathsOf(k).tgz_store_path, tasks[k].bytes) IN
        /\ fs' = sv.fs
        /\ IF sv.ok
           THEN /\ tasks' = [tasks EXCEPT ![k] = Task("extract", tasks[k].bytes, 0)]
                /\ io' = [io EXCEPT ![k].stored = @ \cup { tasks[k].bytes }]
                /\ inst' = inst
           ELSE EndRun("err", { k }) /\ io' = io
    /\ UNCHANGED <<TAR_CACHE, tc, FUSE_LINK_CACHE, PACKAGE_METADATA_CACHE, FETCHED_DIRS_CACHE, rd, linked, gets>>

\* extract_tgz_bytes: the archive is decoded, then extract_entries writes one
\* file per step
TaskExtract(k) ==
    /\ inst.pc = "download"
    /\ k \in DOMAIN tasks /\ tasks[k].pc = "extract"
    /\ io' = [io EXCEPT ![k].extracted = @ \cup { tasks[k].bytes }]
    /\ LET decoded == Decode(tasks[k].bytes) IN
       IF decoded = None
       THEN EndRun("err", { k }) /\ fs' = fs
       ELSE LET writes == extract_entries(Unwrap(decoded), PathsOf(k).unpacked_dir)
                n == tasks[k].idx + 1
            IN  IF writes = << >>
                THEN /\ tasks' = [tasks EXCEPT ![k] = Task("marker", "", 0)]
                     /\ UNCHANGED <<fs, inst>>
                ELSE LET sv == save_tgz(fs, writes[n].out_path, writes[n].contents) IN
                     /\ fs' = sv.fs
                     /\ IF ~sv.ok THEN EndRun("err", { k })
                        ELSE /\ tasks' = [tasks EXCEPT ![k] =
                                            IF n = Len(writes) THEN Task("marker", "", 0)
                                            ELSE Task("extract", tasks[k].bytes, n)]
                             /\ inst' = inst
    /\ UNCHANGED <<TAR_CACHE, tc, FUSE_LINK_CACHE, PACKAGE_METADATA_CACHE, FETCHED_DIRS_CACHE, rd, linked, gets>>

\* install_package writes the _resolved marker
TaskMarker(k) ==
    /\ inst.pc = "download"
    /\ k \in DOMAIN tasks /\ tasks[k].pc = "marker"
    /\ LET wr == WriteFile(fs, PathsOf(k).resolved_marker, "") IN
        /\ fs' = wr.fs
        /\ IF wr.ok
           THEN /\ tasks' = [tasks EXCEPT ![k] = Task("link", "", 0)]
                /\ io' = [io EXCEPT ![k].marker = TRUE]
                /\ inst' = inst
           ELSE EndRun("err", { k }) /\ io' = io
    /\ UNCHANGED <<TAR_CACHE, tc, FUSE_LINK_CACHE, PACKAGE_METADATA_CACHE, FETCHED_DIRS_CACHE, rd, linked, gets>>

\* install_package links the unpacked directory (after the marker, or at once
\* when the cache check held)
TaskLink(k) ==
    /\ inst.pc = "download"
    /\ k \in DOMAIN tasks /\ tasks[k].pc = "link"
    /\ \E o \in fuse_link(fs, FUSE_LINK_CACHE, PathsOf(k).unpacked_dir, PathsOf(k).link_target_dir) :
        /\ fs' = o.fs
        /\ FUSE_LINK_CACHE' = o.cache
        /\ IF o.ok
           THEN /\ tasks' = [tasks EXCEPT ![k] = Task("done", "", 0)]
                /\ io' = [io EXCEPT ![k].sentinel = TRUE]
                /\ inst' = inst
           ELSE EndRun("err", { k }) /\ io' = io
    /\ UNCHANGED <<TAR_CACHE, tc, PACKAGE_METADATA_CACHE, FETCHED_DIRS_CACHE, rd, linked, gets>>

\* try_collect has collected every future: install_deps returns Ok.
\* buffer_unordered(n) polls the stream of futures only while fewer than n
\* are in progress, so with n = 0 it never reaches the end of the stream.
InstallFinish ==
    /\ inst.pc = "download"
    /\ inst.max > 0
    /\ \A k \in DOMAIN tasks : tasks[k].pc = "done"
    /\ EndRun("ok", {})
    /\ UNCHANGED <<TAR_CACHE, tc, fs, FUSE_LINK_CACHE, PACKAGE_METADATA_CACHE, FETCHED_DIRS_CACHE,
                   rd, linked, gets, io>>

\* the caller drops the install_deps future at one of its awaits
Cancel ==
    /\ inst.pc # "idle"
    /\ EndRun("cancelled", {})
    /\ UNCHANGED <<TAR_CACHE, tc, fs, FUSE_LINK_CACHE, PACKAGE_METADATA_CACHE, FETCHED_DIRS_CACHE,
                   rd, linked, gets, io>>

\* a client calls remove_dir_all(path) between two installs
RemoveDirAllCall(path) ==
    /\ inst.pc = "idle" /\ rd.pc = "idle"
    /\ fs' = RemoveDirAll(fs, path).fs
    /\ UNCHANGED <<TAR_CACHE, tc, FUSE_LINK_CACHE, PACKAGE_METADATA_CACHE, FETCHED_DIRS_CACHE,
                   rd, linked, inst, tasks, gets, io>>

\* install_package called without a URL, as test_install_package_without_url
\* does: it returns the error at once
InstallPackageCall(name, version, tgz_url, path_key) ==
    /\ inst.pc = "idle" /\ rd.pc = "idle"
    /\ inst.runs < MaxInstallRuns
    /\ tgz_url = None
    /\ inst' = [inst EXCEPT !.result = "err", !.runs = @ + 1, !.call = "install_package",
                            !.error = no_resolved_field(name, version)]
    /\ UNCHANGED <<TAR_CACHE, tc, fs, FUSE_LINK_CACHE, PACKAGE_METADATA_CACHE, FETCHED_DIRS_CACHE,
                   rd, linked, tasks, gets, io>>

\* a client reads a file of an installed package once install_deps returned Ok
ReadInstalled(path) ==
    /\ inst.pc = "idle" /\ inst.result = "ok"
    /\ ReadStart(path, FALSE)

(***************************************************************************)
(* The archive cache (tar_cache.rs).  TAR_CACHE is [cache, current_size,   *)
(* max_size]; cache maps an archive path to [files, total_size,            *)
(* last_accessed].  Instants are kept as ranks: only their order and their *)
(* ties matter to evict_oldest.                                            *)
(***************************************************************************)
DEFAULT_MAX_SIZE == 104857600

\* strip_first_component
strip_first_component(path) ==
    IF Find(path, "/") # 0 THEN Skip(path, Find(path, "/")) ELSE path

\* TarCache::new
TarCache(max_size) == [cache |-> << >>, current_size |-> 0, max_size |-> max_size]

\* Instant::now(): not before any instant taken so far; the clock may not
\* have advanced since the last one
Now(c) ==
    LET stamps == { c.cache[k].last_accessed : k \in DOMAIN c.cache }
        latest == IF stamps = {} THEN 0 ELSE CHOOSE t \in stamps : \A u \in stamps : u <= t
    IN  { latest, latest + 1 } \ { 0 }

\* the instants of the cache as ranks 1..n, order and ties kept
Ranked(c) ==
    LET stamps == { c.cache[k].last_accessed : k \in DOMAIN c.cache } IN
    [c EXCEPT !.cache = [k \in DOMAIN c.cache |->
        [c.cache[k] EXCEPT !.last_accessed =
            Cardinality({ t \in stamps : t <= c.cache[k].last_accessed })]]]

\* TarCache::evict_oldest that leaves current_size as it is
evict_oldest_keeps_size(c) ==
    IF DOMAIN c.cache = {} THEN { c }
    ELSE { [c EXCEPT !.cache = [k \in DOMAIN c.cache \ { key } |-> c.cache[k]]] :
           key \in { k \in DOMAIN c.cache :
                       \A q \in DOMAIN c.cache :
                           c.cache[k].last_accessed <= c.cache[q].last_accessed } }

\* TarCache::evict_oldest: min_by_key over the HashMap returns one of the
\* entries with the least instant.  The set of caches that can result.
evict_oldest(c) ==
    IF DOMAIN c.cache = {} THEN { c }
    ELSE { [c EXCEPT !.cache = [k \in DOMAIN c.cache \ { key } |-> c.cache[k]],
                     !.current_size = @ - c.cache[key].total_size] :
           key \in { k \in DOMAIN c.cache :
                       \A q \in DOMAIN c.cache :
                           c.cache[k].last_accessed <= c.cache[q].last_accessed } }

RECURSIVE EvictWhile(_, _)
\* while current_size + need > max_size && !cache.is_empty() { evict_oldest() }
EvictWhile(c, need) ==
    IF c.current_size + need > c.max_size /\ DOMAIN c.cache # {}
    THEN UNION { EvictWhile(d, need) : d \in evict_oldest(c) }
    ELSE { c }

\* TarCache::put_tgz without the eviction loop
put_tgz_unbounded(c, tgz_path, files, total_size) ==
    IF total_size > c.max_size THEN { c }
    ELSE { Ranked([d EXCEPT
               !.cache = [k \in DOMAIN d.cache \cup { tgz_path } |->
                   IF k = tgz_path
                   THEN [files |-> files, total_size |-> total_size, last_accessed |-> now]
                   ELSE d.cache[k]],
               !.current_size =
                   (IF tgz_path \in DOMAIN d.cache THEN @ - d.cache[tgz_path].total_size ELSE @)
                       + total_size]) :
           d \in { c }, now \in Now(c) }
\* TarCache::put_tgz without the test of total_size against max_size
put_tgz_any_size(c, tgz_path, files, total_size) ==
    UNION { { Ranked([d EXCEPT
                !.cache = [k \in DOMAIN d.cache \cup { tgz_path } |->
                    IF k = tgz_path
                    THEN [files |-> files, total_size |-> total_size, last_accessed |-> now]
                    ELSE d.cache[k]],
                !.current_size =
                    (IF tgz_path \in DOMAIN d.cache
                     THEN @ - d.cache[tgz_path].total_size ELSE @) + total_size]) :
              now \in Now(d) } :
            d \in EvictWhile(c, total_size) }
\* TarCache::put_tgz: the caches that can result
put_tgz(c, tgz_path, files, total_size) ==
    IF total_size > c.max_size THEN { c }
    ELSE UNION { { Ranked([d EXCEPT
                     !.cache = [k \in DOMAIN d.cache \cup { tgz_path } |->
                         IF k = tgz_path
                         THEN [files |-> files, total_size |-> total_size,
                               last_accessed |-> now]
                         ELSE d.cache[k]],
                     !.current_size =
                         (IF tgz_path \in DOMAIN d.cache
                          THEN @ - d.cache[tgz_path].total_size ELSE @) + total_size]) :
                   now \in Now(d) } :
                 d \in EvictWhile(c, total_size) }

\* TarCache::has_tgz
has_tgz(c, tgz_path) == tgz_path \in DOMAIN c.cache

\* TarCache::get_file: the cache with the entry's instant renewed, and the
\* content when the entry holds the file
get_file(c, tgz_path, normalized_path, now) ==
    IF has_tgz(c, tgz_path)
    THEN [cache |-> Ranked([c EXCEPT !.cache[tgz_path].last_accessed = now]),
          content |-> IF normalized_path \in DOMAIN c.cache[tgz_path].files
                      THEN Some(c.cache[tgz_path].files[normalized_path]) ELSE None]
    ELSE [cache |-> c, content |-> None]

RECURSIVE SumLen(_, _)
\* total_size += content.len() over the entries read
SumLen(entries, i) ==
    IF i > Len(entries) THEN 0
    ELSE (IF entries[i].is_file THEN Len(entries[i].contents) ELSE 0) + SumLen(entries, i + 1)

\* the files map load_tgz_to_cache builds: directory entries skipped, the
\* first component stripped, a later entry of the same name replacing an
\* earlier one
ArchiveFiles(entries) ==
    LET idx == { i \in 1..Len(entries) : entries[i].is_file }
        names == { strip_first_component(entries[i].path) : i \in idx }
    IN  [n \in names |->
            LET last == CHOOSE i \in idx :
                            /\ strip_first_component(entries[i].path) = n
                            /\ \A j \in idx :
                                  strip_first_component(entries[j].path) = n => j <= i
            IN  entries[last].contents]

\* load_tgz_to_cache: the caches that can result; ok is FALSE when the read
\* or the decoding fails
load_tgz_to_cache(f, c, tgz_path) ==
    IF ~IsFile(f, tgz_path) \/ Decode(f[Canon(tgz_path)].data) = None
    THEN { [ok |-> FALSE, cache |-> c] }
    ELSE LET entries == Unwrap(Decode(f[Canon(tgz_path)].data)) IN
         { [ok |-> TRUE, cache |-> d] :
           d \in put_tgz(c, tgz_path, ArchiveFiles(entries), SumLen(entries, 1)) }

\* extract_file_cached from "Try cache again" on: the result of the call
ExtractResult(c, tgz_path, file_path, now) ==
    LET normalized_path == strip_first_component(file_path)
        got == get_file(c, tgz_path, normalized_path, now)
    IN  IF got.content # None
        THEN [cache |-> got.cache, result |-> "ok", content |-> Unwrap(got.content)]
        ELSE IF /\ has_tgz(c, tgz_path)
                /\ \E k \in DOMAIN c.cache[tgz_path].files :
                      StartsWith(k, normalized_path \o "/")
        THEN [cache |-> got.cache, result |-> "err", content |-> "is a directory"]
        ELSE [cache |-> got.cache, result |-> "err", content |-> "not found"]

\* a fresh decompression of the archive at tgz_path restricted to one entry
\* (first component stripped): None when the archive or the entry is missing
FreshExtract(f, tgz_path, file_path) ==
    IF ~IsFile(f, tgz_path) \/ Decode(f[Canon(tgz_path)].data) = None THEN None
    ELSE LET files == ArchiveFiles(Unwrap(Decode(f[Canon(tgz_path)].data)))
             normalized_path == strip_first_component(file_path)
         IN  IF normalized_path \in DOMAIN files THEN Some(files[normalized_path]) ELSE None

\* no extract_file_cached call made yet; fresh is history: what a fresh
\* decompression gave at the moment the call returned
IdleTar == [pc |-> "idle", tgz_path |-> "", file_path |-> "", result |-> "none",
            content |-> "", fresh |-> None]

\* extract_file_cached up to the await of load_tgz_to_cache: served from the
\* cache when the archive is cached
ExtractStart(tgz_path, file_path) ==
    /\ tc.pc = "idle"
    /\ IF has_tgz(TAR_CACHE, tgz_path)
       THEN \E now \in Now(TAR_CACHE) :
               LET r == ExtractResult(TAR_CACHE, tgz_path, file_path, now) IN
               /\ TAR_CACHE' = r.cache
               /\ tc' = [pc |-> "idle", tgz_path |-> tgz_path, file_path |-> file_path,
                         result |-> r.result, content |-> r.content,
                         fresh |-> FreshExtract(fs, tgz_path, file_path)]
       ELSE /\ tc' = [IdleTar EXCEPT !.pc = "load", !.tgz_path = tgz_path,
                                     !.file_path = file_path]
            /\ UNCHANGED TAR_CACHE
    /\ UNCHANGED <<fs, FUSE_LINK_CACHE, PACKAGE_METADATA_CACHE, FETCHED_DIRS_CACHE,
                   rd, linked, inst, tasks, gets, io>>

\* extract_file_cached from the completion of the storage read on
ExtractLoad ==
    /\ tc.pc = "load"
    /\ \E l \in load_tgz_to_cache(fs, TAR_CACHE, tc.tgz_path) :
          IF ~l.ok
          THEN /\ TAR_CACHE' = l.cache
               /\ tc' = [tc EXCEPT !.pc = "idle", !.result = "err", !.content = "load",
                                   !.fresh = FreshExtract(fs, tc.tgz_path, tc.file_path)]
          ELSE \E now \in Now(l.cache) :
                  LET r == ExtractResult(l.cache, tc.tgz_path, tc.file_path, now) IN
                  /\ TAR_CACHE' = r.cache
                  /\ tc' = [tc EXCEPT !.pc = "idle", !.result = r.result,
                                      !.content = r.content,
                                      !.fresh = FreshExtract(fs, tc.tgz_path, tc.file_path)]
    /\ UNCHANGED <<fs, FUSE_LINK_CACHE, PACKAGE_METADATA_CACHE, FETCHED_DIRS_CACHE,
                   rd, linked, inst, tasks, gets, io>>

\* set_max_size
SetMaxSize(max_size_bytes) ==
    /\ TAR_CACHE' \in EvictWhile([TAR_CACHE EXCEPT !.max_size = max_size_bytes], 0)
    /\ UNCHANGED <<fs, FUSE_LINK_CACHE, PACKAGE_METADATA_CACHE, FETCHED_DIRS_CACHE,
                   rd, linked, inst, tasks, gets, io, tc>>

\* clear_cache
ClearCache ==
    /\ TAR_CACHE' = [TAR_CACHE EXCEPT !.cache = << >>, !.current_size = 0]
    /\ UNCHANGED <<fs, FUSE_LINK_CACHE, PACKAGE_METADATA_CACHE, FETCHED_DIRS_CACHE,
                   rd, linked, inst, tasks, gets, io, tc>>

\* the installer saving a downloaded archive over the one in the store
\* (install_package: save_tgz)
ReplaceArchive(tgz_path, bytes) ==
    /\ ReadFile(fs, tgz_path) # Some(bytes)
    /\ fs' = save_tgz(fs, tgz_path, bytes).fs
    /\ UNCHANGED <<FUSE_LINK_CACHE, PACKAGE_METADATA_CACHE, FETCHED_DIRS_CACHE,
                   rd, linked, inst, tasks, gets, io, TAR_CACHE, tc>>

(***************************************************************************)
(* Scenario of the fuse.rs tests: two unpacked packages under /s are       *)
(* linked at package directories of the project and read back through     *)
(* read / read_dir.                                                        *)
(***************************************************************************)
MaxLinkCalls == 2

SrcDirs == { "/s/a", "/s/b" }
DstDirs == { "/p/node_modules/a", "/p/node_modules/a/node_modules/b", "/p/node_modules/@s/b" }
ReadPaths == { "/p/node_modules/a/package.json",
               "/p/node_modules/a/node_modules/b/package.json",
               "node_modules/@s/b/package.json",
               "/p/x.txt" }
ReadDirPaths == { "/p", "/p/node_modules", "/p/node_modules/@s",
                  "/p/node_modules/a", "node_modules/a/node_modules/b" }

Unpacked ==
    ("/p" :> DirNode) @@ ("/s" :> DirNode) @@
    ("/s/a" :> DirNode) @@ ("/s/a/package.json" :> FileNode("a/package.json")) @@
    ("/s/b" :> DirNode) @@ ("/s/b/package.json" :> FileNode("b/package.json"))

InitFuse ==
    /\ fs \in { Unpacked, ("/p/package-lock.json" :> FileNode("lock-2")) @@ Unpacked }
    /\ FUSE_LINK_CACHE = << >>
    /\ PACKAGE_METADATA_CACHE = << >>
    /\ FETCHED_DIRS_CACHE = {}
    /\ rd = IdleRead
    /\ linked = [d \in DstDirs |-> << >>]
    /\ inst = IdleInstall
    /\ tasks = << >>
    /\ gets = << >>
    /\ io = << >>
    /\ TAR_CACHE = TarCache(DEFAULT_MAX_SIZE)
    /\ tc = IdleTar

RECURSIVE CountLinks(_, _)
\* the number of successful fuse_link calls recorded in a history
CountLinks(h, dsts) ==
    IF dsts = {} THEN 0
    ELSE LET d == CHOOSE d \in dsts : TRUE IN Len(h[d]) + CountLinks(h, dsts \ {d})

\* a client calls fuse::fuse_link(src, dst)
FuseLinkCall(src, dst) ==
    /\ CountLinks(linked, DstDirs) < MaxLinkCalls
    /\ \E o \in fuse_link(fs, FUSE_LINK_CACHE, src, dst) :
        /\ fs' = o.fs
        /\ FUSE_LINK_CACHE' = o.cache
        /\ linked' = IF o.ok THEN [linked EXCEPT ![dst] = Append(@, src)] ELSE linked
    /\ UNCHANGED <<TAR_CACHE, tc, PACKAGE_METADATA_CACHE, FETCHED_DIRS_CACHE, rd, inst, tasks, gets, io>>

NextFuse ==
    \/ \E src \in SrcDirs, dst \in DstDirs : FuseLinkCall(src, dst)
    \/ \E path \in ReadPaths : ReadStart(path, FALSE)
    \/ \E path \in ReadDirPaths : ReadStart(path, TRUE)
    \/ ReadRegistry
    \/ ReadFuse
    \/ ReadDirect
    \/ ReadReturn

SpecFuse == InitFuse /\ [][NextFuse]_vars

(***************************************************************************)
(* Properties of the read path and of the fuse-link layer (SpecFuse)       *)
(***************************************************************************)
LayerOrder == << "registry", "fuse", "direct" >>

\* C1: every read / read_dir call consults the layers in the order
\* registry-fs, fuse-link, direct storage; a layer is consulted only after
\* every earlier layer answered "not applicable", so once a layer returns a
\* value no later layer is consulted, and the call returns what its last
\* consulted layer answered.
C1_LayersInOrder ==
    /\ Len(rd.trace) <= Len(LayerOrder)
    /\ \A i \in 1..Len(rd.trace) : rd.trace[i].layer = LayerOrder[i]
    /\ \A i \in 1..(Len(rd.trace) - 1) : rd.trace[i].res = "None"
    /\ rd.pc \in { "registry", "fuse", "direct" } =>
          /\ Len(rd.trace) < Len(LayerOrder)
          /\ rd.pc = LayerOrder[Len(rd.trace) + 1]
          /\ \A i \in 1..Len(rd.trace) : rd.trace[i].res = "None"
    /\ rd.pc = "done" =>
          /\ rd.trace # << >>
          /\ rd.out.res = rd.trace[Len(rd.trace)].res
          /\ rd.out.res # "None"

\* a call that the fuse-link layer served after registry-fs declined: direct
\* storage was not consulted
C1_ServedByFuse ==
    /\ rd.pc = "done"
    /\ Len(rd.trace) = 2
    /\ rd.trace[1].res = "None"
    /\ rd.trace[2].res = "Some"

\* C2: a read / read_dir call that reaches registry-fs while the descriptor
\* cache is empty and ./package-lock.json cannot be read does not fail
\* there: registry-fs never answers with an error in that situation.
C2_NoLockfileNoError ==
    \A i \in 1..Len(rd.trace) :
        (rd.trace[i].layer = "registry" /\ rd.trace[i].uninit) => rd.trace[i].res # "Err"

\* C3: whenever the GET of a registry-fs file read or directory read fails
\* (transport failure, non-2xx status, unreadable or unparsable body) the
\* layer answers "not applicable", never an error.
C3_HttpFailureNotApplicable ==
    \A i \in 1..Len(rd.trace) :
        (rd.trace[i].layer = "registry" /\ rd.trace[i].http \in HttpKinds \ { "ok" })
            => rd.trace[i].res = "None"

\* the paths whose sentinel is looked up
SentinelProbes ==
    DstDirs \cup { prepare_path(p) : p \in ReadPaths \cup ReadDirPaths }

\* <D>/fuse.link for the innermost package directory D (name, or @scope/name,
\* directly under a component node_modules) that encloses or equals p
InnermostSentinel(p) ==
    LET cs == Components(p)
        last(i) == IF StartsWith(cs[i + 1], "@") THEN i + 2 ELSE i + 1
        packages == { i \in 1..(Len(cs) - 1) : cs[i] = "node_modules" /\ last(i) <= Len(cs) }
    IN  IF packages = {} THEN None
        ELSE LET i == CHOOSE i \in packages : \A j \in packages : j <= i
             IN  Some(JoinComponents(SubSeq(cs, 1, last(i))) \o "/fuse.link")

\* C4: in every state of the sentinel cache, get_fuse_link_path(P) is the
\* sentinel of the innermost package directory enclosing P, and nothing
\* when there is none (a scope-only path, a path outside node_modules).
C4_InnermostPackage ==
    \A p \in SentinelProbes :
        get_fuse_link_path(FUSE_LINK_CACHE, p) = { InnermostSentinel(p) }

\* C5: after successful fuse_link calls on distinct package directories,
\* every linked directory holds its own sentinel, whose first line is the
\* source it was linked to.
C5_OwnSentinel ==
    (\A d \in DstDirs : Len(linked[d]) <= 1) =>
        \A d \in DstDirs :
            Len(linked[d]) = 1 =>
                LET content == ReadFile(fs, Join(d, "fuse.link")) IN
                /\ content # None
                /\ FirstLine(Unwrap(content)) = linked[d][1]

(***************************************************************************)
(* Scenario of the package_manager.rs tests: a project installs its        *)
(* lockfile, possibly several times, possibly cancelled; between installs  *)
(* a client may remove an unpack directory of the store; after a           *)
(* successful install the client reads the installed files.                *)
(***************************************************************************)
Concurrency == { 1, 2 }
InvalidLock == "not json"

\* the packages of the project's lockfile
ProjectKeys == DOMAIN Unwrap(from_json(inst.lock)) \ { "" }

\* the files install_path/R of package k, as absolute path -> archive bytes
InstalledFiles(k) ==
    LET files == PackageFiles(Unwrap(InfoOf(k).tgz_url)) IN
    [ path \in { Join(Join(Cwd, k), r) : r \in DOMAIN files } |->
        files[CHOOSE r \in DOMAIN files : Join(Join(Cwd, k), r) = path] ]

\* the storage of a fresh project
Fresh == ("/p" :> DirNode)

InitInstall ==
    /\ \E text \in ProjectLocks : inst = [IdleInstall EXCEPT !.lock = text]
    /\ fs = Fresh
    /\ FUSE_LINK_CACHE = << >>
    /\ PACKAGE_METADATA_CACHE = << >>
    /\ FETCHED_DIRS_CACHE = {}
    /\ rd = IdleRead
    /\ linked = [d \in DstDirs |-> << >>]
    /\ tasks = << >>
    /\ gets = << >>
    /\ io = << >>
    /\ TAR_CACHE = TarCache(DEFAULT_MAX_SIZE)
    /\ tc = IdleTar

NextInstall ==
    \/ \E text \in { inst.lock, InvalidLock }, max \in Concurrency : InstallStart(text, max)
    \/ \E k \in ProjectKeys : LinkCached(k)
    \/ \E k \in ProjectKeys : TaskStart(k)
    \/ \E k \in ProjectKeys : TaskFetch(k)
    \/ \E k \in ProjectKeys : TaskGet(k)
    \/ \E k \in ProjectKeys : TaskSave(k)
    \/ \E k \in ProjectKeys : TaskExtract(k)
    \/ \E k \in ProjectKeys : TaskMarker(k)
    \/ \E k \in ProjectKeys : TaskLink(k)
    \/ InstallFinish
    \/ Cancel
    \/ \E k \in ProjectKeys : RemoveDirAllCall(PathsOf(k).unpacked_dir)

SpecInstall == InitInstall /\ [][NextInstall]_vars

(***************************************************************************)
(* Scenario of a project that installs its lockfile once, with or without  *)
(* a package-lock.json in its working directory, and then reads the        *)
(* installed files through read.                                           *)
(***************************************************************************)
InitRead ==
    /\ \E text \in ProjectLocks :
        /\ inst = [IdleInstall EXCEPT !.lock = text]
        /\ fs \in { Fresh, Fresh @@ ("/p/package-lock.json" :> FileNode(text)) }
    /\ FUSE_LINK_CACHE = << >>
    /\ PACKAGE_METADATA_CACHE = << >>
    /\ FETCHED_DIRS_CACHE = {}
    /\ rd = IdleRead
    /\ linked = [d \in DstDirs |-> << >>]
    /\ tasks = << >>
    /\ gets = << >>
    /\ io = << >>
    /\ TAR_CACHE = TarCache(DEFAULT_MAX_SIZE)
    /\ tc = IdleTar

\* the first install_deps call of the process
InstallOnce(max) ==
    /\ inst.runs = 0
    /\ InstallStart(inst.lock, max)

NextRead ==
    \/ \E max \in Concurrency : InstallOnce(max)
    \/ \E k \in ProjectKeys : TaskStart(k)
    \/ \E k \in ProjectKeys : TaskFetch(k)
    \/ \E k \in ProjectKeys : TaskGet(k)
    \/ \E k \in ProjectKeys : TaskSave(k)
    \/ \E k \in ProjectKeys : TaskExtract(k)
    \/ \E k \in ProjectKeys : TaskMarker(k)
    \/ \E k \in ProjectKeys : TaskLink(k)
    \/ InstallFinish
    \/ \E k \in ProjectKeys : \E path \in DOMAIN InstalledFiles(k) : ReadInstalled(path)
    \/ ReadRegistry
    \/ ReadFuse
    \/ ReadDirect
    \/ ReadReturn

SpecRead == InitRead /\ [][NextRead]_vars

(***************************************************************************)
(* Scenario of a project that installs over a store left by earlier        *)
(* processes: empty, holding valid caches, or holding debris of the wrong  *)
(* kind (test_marker_as_directory_not_cached,                              *)
(* test_unpacked_dir_as_file_not_cached).  Its lockfile may hold an entry  *)
(* without resolved field, or an optional entry with a cpu constraint.     *)
(***************************************************************************)
StoreLocks == { "lock-2", "lock-3", "lock-4" }

\* the store after the archives of a and b have been saved, extracted and marked
StoreAB ==
    ("/stores" :> DirNode) @@
    ("/stores/a" :> DirNode) @@ ("/stores/a/-" :> DirNode) @@
    ("/stores/a/-/a.tgz" :> FileNode(TgzA)) @@
    ("/stores/a/-/a.tgz-unpack" :> DirNode) @@
    ("/stores/a/-/a.tgz-unpack/package.json" :> FileNode("a/package.json")) @@
    ("/stores/a/-/a.tgz-unpack/index.js" :> FileNode("a/index.js")) @@
    ("/stores/a/-/a.tgz-unpack._resolved" :> FileNode("")) @@
    ("/stores/b" :> DirNode) @@ ("/stores/b/-" :> DirNode) @@
    ("/stores/b/-/b.tgz" :> FileNode(TgzB)) @@
    ("/stores/b/-/b.tgz-unpack" :> DirNode) @@
    ("/stores/b/-/b.tgz-unpack/package.json" :> FileNode("b/package.json")) @@
    ("/stores/b/-/b.tgz-unpack/lib" :> DirNode) @@
    ("/stores/b/-/b.tgz-unpack/lib/x.js" :> FileNode("b/lib/x.js")) @@
    ("/stores/b/-/b.tgz-unpack._resolved" :> FileNode(""))

\* the stores the project may find: empty; the marker of package a a
\* directory; its unpack path a file; package a installed; a and b installed
StoreStates ==
    LET pa == PackagePaths("a", UrlA, "node_modules/a") IN
    { Fresh,
      CreateDirAll(CreateDirAll(Fresh, pa.resolved_marker).fs, pa.unpacked_dir).fs,
      save_tgz(save_tgz(Fresh, pa.resolved_marker, "").fs,
               pa.unpacked_dir, "not a directory").fs,
      Fresh @@ [q \in { q \in DOMAIN StoreAB : ~PathStartsWith(q, "/stores/b") } |-> StoreAB[q]],
      Fresh @@ StoreAB }

InitStore ==
    /\ \E text \in StoreLocks : inst = [IdleInstall EXCEPT !.lock = text]
    /\ fs \in StoreStates
    /\ FUSE_LINK_CACHE = << >>
    /\ PACKAGE_METADATA_CACHE = << >>
    /\ FETCHED_DIRS_CACHE = {}
    /\ rd = IdleRead
    /\ linked = [d \in DstDirs |-> << >>]
    /\ tasks = << >>
    /\ gets = << >>
    /\ io = << >>
    /\ TAR_CACHE = TarCache(DEFAULT_MAX_SIZE)
    /\ tc = IdleTar

NextStore ==
    \/ \E max \in Concurrency : InstallStart(inst.lock, max)
    \/ \E k \in ProjectKeys :
          InstallPackageCall(InfoOf(k).name, InfoOf(k).version, InfoOf(k).tgz_url, k)
    \/ \E k \in ProjectKeys : LinkCached(k)
    \/ \E k \in ProjectKeys : TaskStart(k)
    \/ \E k \in ProjectKeys : TaskFetch(k)
    \/ \E k \in ProjectKeys : TaskGet(k)
    \/ \E k \in ProjectKeys : TaskSave(k)
    \/ \E k \in ProjectKeys : TaskExtract(k)
    \/ \E k \in ProjectKeys : TaskMarker(k)
    \/ \E k \in ProjectKeys : TaskLink(k)
    \/ InstallFinish

SpecStore == InitStore /\ [][NextStore]_vars

(***************************************************************************)
(* Scenario of a project whose lockfile has been installed completely by   *)
(* an earlier install_deps call, and which calls install_deps again with   *)
(* the same lockfile, in the same process (the sentinel cache is as the    *)
(* earlier call left it) or in a new one (the cache is empty).             *)
(***************************************************************************)
\* storage and sentinel cache as the earlier call left them: every package
\* of the lockfile has its own sentinel
AfterInstall(text) ==
    IF text = "lock-1"
    THEN [fs |-> StoreAB @@
                 ("/p" :> DirNode) @@
                 ("/p/package.json" :> FileNode("{name:proj,version:1.0.0}")) @@
                 ("/p/node_modules" :> DirNode) @@
                 ("/p/node_modules/a" :> DirNode) @@
                 ("/p/node_modules/a/fuse.link" :> FileNode("/stores/a/-/a.tgz-unpack\n")) @@
                 ("/p/node_modules/a/node_modules" :> DirNode) @@
                 ("/p/node_modules/a/node_modules/b" :> DirNode) @@
                 ("/p/node_modules/a/node_modules/b/fuse.link" :>
                     FileNode("/stores/b/-/b.tgz-unpack\n")) @@
                 ("/p/node_modules/b" :> DirNode) @@
                 ("/p/node_modules/b/fuse.link" :> FileNode("/stores/b/-/b.tgz-unpack\n")),
          cache |-> ("node_modules/a/fuse.link" :> "/stores/a/-/a.tgz-unpack") @@
                    ("node_modules/a/node_modules/b/fuse.link" :> "/stores/b/-/b.tgz-unpack") @@
                    ("node_modules/b/fuse.link" :> "/stores/b/-/b.tgz-unpack")]
    ELSE [fs |-> StoreAB @@
                 ("/p" :> DirNode) @@
                 ("/p/package.json" :> FileNode("{name:proj,version:1.0.0}")) @@
                 ("/p/node_modules" :> DirNode) @@
                 ("/p/node_modules/a" :> DirNode) @@
                 ("/p/node_modules/a/fuse.link" :> FileNode("/stores/a/-/a.tgz-unpack\n")) @@
                 ("/p/node_modules/@s" :> DirNode) @@
                 ("/p/node_modules/@s/b" :> DirNode) @@
                 ("/p/node_modules/@s/b/fuse.link" :> FileNode("/stores/b/-/b.tgz-unpack\n")),
          cache |-> ("node_modules/a/fuse.link" :> "/stores/a/-/a.tgz-unpack") @@
                    ("node_modules/@s/b/fuse.link" :> "/stores/b/-/b.tgz-unpack")]

InitRepeat ==
    /\ \E text \in ProjectLocks :
        /\ inst = [IdleInstall EXCEPT !.lock = text]
        /\ fs = AfterInstall(text).fs
        /\ \/ FUSE_LINK_CACHE = AfterInstall(text).cache
           \/ FUSE_LINK_CACHE = << >>
    /\ PACKAGE_METADATA_CACHE = << >>
    /\ FETCHED_DIRS_CACHE = {}
    /\ rd = IdleRead
    /\ linked = [d \in DstDirs |-> << >>]
    /\ tasks = << >>
    /\ gets = << >>
    /\ io = << >>
    /\ TAR_CACHE = TarCache(DEFAULT_MAX_SIZE)
    /\ tc = IdleTar

NextRepeat ==
    \/ \E max \in Concurrency : InstallStart(inst.lock, max)
    \/ \E k \in ProjectKeys : LinkCached(k)
    \/ InstallFinish

SpecRepeat == InitRepeat /\ [][NextRepeat]_vars

(***************************************************************************)
(* Scenario of a project with a dependency whose published archive holds    *)
(* directory entries only: the project installs its lockfile into a fresh  *)
(* store and then installs it again.                                       *)
(***************************************************************************)
InitEmpty ==
    /\ inst = [IdleInstall EXCEPT !.lock = "lock-5"]
    /\ fs = Fresh
    /\ FUSE_LINK_CACHE = << >>
    /\ PACKAGE_METADATA_CACHE = << >>
    /\ FETCHED_DIRS_CACHE = {}
    /\ rd = IdleRead
    /\ linked = [d \in DstDirs |-> << >>]
    /\ tasks = << >>
    /\ gets = << >>
    /\ io = << >>
    /\ TAR_CACHE = TarCache(DEFAULT_MAX_SIZE)
    /\ tc = IdleTar

NextEmpty ==
    \/ \E max \in Concurrency : InstallStart(inst.lock, max)
    \/ \E k \in ProjectKeys : LinkCached(k)
    \/ \E k \in ProjectKeys : TaskStart(k)
    \/ \E k \in ProjectKeys : TaskFetch(k)
    \/ \E k \in ProjectKeys : TaskGet(k)
    \/ \E k \in ProjectKeys : TaskSave(k)
    \/ \E k \in ProjectKeys : TaskExtract(k)
    \/ \E k \in ProjectKeys : TaskMarker(k)
    \/ \E k \in ProjectKeys : TaskLink(k)
    \/ InstallFinish

SpecEmpty == InitEmpty /\ [][NextEmpty]_vars

(***************************************************************************)
(* Scenario of install_deps with any number of concurrent downloads, zero  *)
(* included: the project installs its lockfile into a fresh store and      *)
(* installs it again.                                                      *)
(***************************************************************************)
AnyConcurrency == { 0, 1, 2 }

InitAny ==
    /\ inst = [IdleInstall EXCEPT !.lock = "lock-2"]
    /\ fs = Fresh
    /\ FUSE_LINK_CACHE = << >>
    /\ PACKAGE_METADATA_CACHE = << >>
    /\ FETCHED_DIRS_CACHE = {}
    /\ rd = IdleRead
    /\ linked = [d \in DstDirs |-> << >>]
    /\ tasks = << >>
    /\ gets = << >>
    /\ io = << >>
    /\ TAR_CACHE = TarCache(DEFAULT_MAX_SIZE)
    /\ tc = IdleTar

NextAny ==
    \/ \E max \in AnyConcurrency : InstallStart(inst.lock, max)
    \/ \E k \in ProjectKeys : LinkCached(k)
    \/ \E k \in ProjectKeys : TaskStart(k)
    \/ \E k \in ProjectKeys : TaskFetch(k)
    \/ \E k \in ProjectKeys : TaskGet(k)
    \/ \E k \in ProjectKeys : TaskSave(k)
    \/ \E k \in ProjectKeys : TaskExtract(k)
    \/ \E k \in ProjectKeys : TaskMarker(k)
    \/ \E k \in ProjectKeys : TaskLink(k)
    \/ InstallFinish

SpecAny == InitAny /\ [][NextAny]_vars

(***************************************************************************)
(* Scenario of a client of the public API: package b of the store, which   *)
(* the lockfile of the project does not list, is linked at                 *)
(* node_modules/@s/b, to its unpack directory or to its archive with a     *)
(* prefix (ARCHIVE|PREFIX); the client calls the mutators and reads back   *)
(* through read / read_dir.                                                *)
(***************************************************************************)
ClientSrcs == { "/stores/b/-/b.tgz-unpack", "/stores/b/-/b.tgz|package" }
ClientDst == "/p/node_modules/@s/b"
ClientFile == "/p/node_modules/@s/b/package.json"
ClientReads == { ClientFile, ClientDst }
ClientWrites == { ClientFile, "/stores/b/-/b.tgz-unpack/fuse.link" }
ClientCopy == "/p/d/package.json"

InitClient ==
    /\ fs = ("/p/package-lock.json" :> FileNode("lock-3")) @@ Fresh @@ StoreAB
    /\ FUSE_LINK_CACHE = << >>
    /\ PACKAGE_METADATA_CACHE = << >>
    /\ FETCHED_DIRS_CACHE = {}
    /\ rd = IdleRead
    /\ linked = [d \in DstDirs |-> << >>]
    /\ inst = IdleInstall
    /\ tasks = << >>
    /\ gets = << >>
    /\ io = << >>
    /\ TAR_CACHE = TarCache(DEFAULT_MAX_SIZE)
    /\ tc = IdleTar

NextClient ==
    \/ \E src \in ClientSrcs : FuseLinkCall(src, ClientDst)
    \/ \E path \in ClientWrites : WriteCall(path, "client")
    \/ CreateDirCall("/p/d")
    \/ CreateDirAllCall("/p/node_modules/@s/b/lib")
    \/ CopyCall(ClientFile, ClientCopy)
    \/ RemoveFileCall(ClientFile)
    \/ RemoveDirCall("/p/d")
    \/ RemoveTreeCall(ClientDst)
    \/ \E path \in ClientReads : ReadStart(path, FALSE)
    \/ ReadStart(ClientDst, TRUE)
    \/ ReadRegistry
    \/ ReadFuse
    \/ ReadDirect
    \/ ReadReturn

SpecClient == InitClient /\ [][NextClient]_vars

(***************************************************************************)
(* Scenario of a project read through the registry: nothing is installed,  *)
(* the lockfile of the working directory lists a, a/node_modules/b and b,  *)
(* and the client reads files and directories of these packages, empties   *)
(* the registry caches and truncates a cached file.                        *)
(***************************************************************************)
RegistryFiles == { "/p/node_modules/a/package.json", "/p/node_modules/b/lib/x.js" }
RegistryDirs == { "/p/node_modules/a", "/p/node_modules/b/lib" }
RegistryCached == "/registry-fs/r/a/1.0.0/package.json"

InitRegistry ==
    /\ fs = ("/p/package-lock.json" :> FileNode("lock-1")) @@ Fresh
    /\ FUSE_LINK_CACHE = << >>
    /\ PACKAGE_METADATA_CACHE = << >>
    /\ FETCHED_DIRS_CACHE = {}
    /\ rd = IdleRead
    /\ linked = [d \in DstDirs |-> << >>]
    /\ inst = IdleInstall
    /\ tasks = << >>
    /\ gets = << >>
    /\ io = << >>
    /\ TAR_CACHE = TarCache(DEFAULT_MAX_SIZE)
    /\ tc = IdleTar

NextRegistry ==
    \/ \E path \in RegistryFiles : ReadStart(path, FALSE)
    \/ \E path \in RegistryDirs : ReadStart(path, TRUE)
    \/ ReadRegistry
    \/ ReadFuse
    \/ ReadDirect
    \/ ReadReturn
    \/ ClearRegistryCacheCall
    \/ ClearAllRegistryCacheCall
    \/ WriteCall(RegistryCached, "")

SpecRegistry == InitRegistry /\ [][NextRegistry]_vars

(***************************************************************************)
(* Scenario of pack.rs's verify_integrity tests: the function is called    *)
(* once on bytes, an integrity string and a shasum, each present, absent,  *)
(* right or wrong; io holds the arguments and the result.                  *)
(***************************************************************************)
VerifyBytes == { TgzA, TgzB, Garbage }
VerifyIntegrities ==
    { None, Some("sha512-" \o Sha512Base64(TgzA)), Some("sha512-" \o Sha512Base64(TgzB)),
      Some("sha512-wrong"), Some("sha512-"), Some("sha1-" \o Sha1Hex(TgzA)),
      Some(Sha512Base64(TgzA)) }
VerifyShasums ==
    { None, Some(Sha1Hex(TgzA)), Some(Sha1Hex(TgzB)), Some("S1=TGZ-A"), Some("incorrect_hash") }

InitVerify ==
    /\ io \in [ file_bytes : VerifyBytes, integrity : VerifyIntegrities,
                shasum : VerifyShasums, returned : { FALSE }, result : { FALSE } ]
    /\ fs = Fresh
    /\ FUSE_LINK_CACHE = << >>
    /\ PACKAGE_METADATA_CACHE = << >>
    /\ FETCHED_DIRS_CACHE = {}
    /\ rd = IdleRead
    /\ linked = [d \in DstDirs |-> << >>]
    /\ inst = IdleInstall
    /\ tasks = << >>
    /\ gets = << >>
    /\ TAR_CACHE = TarCache(DEFAULT_MAX_SIZE)
    /\ tc = IdleTar

\* the call of verify_integrity on the arguments drawn
VerifyCall ==
    /\ ~io.returned
    /\ io' = [io EXCEPT !.returned = TRUE,
                        !.result = verify_integrity(io.file_bytes, io.integrity, io.shasum)]
    /\ UNCHANGED <<TAR_CACHE, tc, fs, FUSE_LINK_CACHE, PACKAGE_METADATA_CACHE, FETCHED_DIRS_CACHE,
                   rd, linked, inst, tasks, gets>>

NextVerify == VerifyCall

SpecVerify == InitVerify /\ [][NextVerify]_vars

(***************************************************************************)
(* Scenario of the overlay listing: package b of the store, which the      *)
(* lockfile does not list, is linked at node_modules/@s/b to its unpack    *)
(* directory; the client creates directories below the link destination    *)
(* (a nested node_modules, a lib beside the target's lib) and lists the    *)
(* destination and the directories below it.                               *)
(***************************************************************************)
OverlaySrc == "/stores/b/-/b.tgz-unpack"
OverlayCreated == { "/p/node_modules/@s/b/node_modules/c", "/p/node_modules/@s/b/lib" }
OverlayDirs == { "/p/node_modules/@s/b", "/p/node_modules/@s/b/lib",
                 "/p/node_modules/@s/b/node_modules", "/p/node_modules/@s/b/docs" }

InitOverlay ==
    /\ fs = ("/p/package-lock.json" :> FileNode("lock-3")) @@ Fresh @@ StoreAB
    /\ FUSE_LINK_CACHE = << >>
    /\ PACKAGE_METADATA_CACHE = << >>
    /\ FETCHED_DIRS_CACHE = {}
    /\ rd = IdleRead
    /\ linked = [d \in DstDirs |-> << >>]
    /\ inst = IdleInstall
    /\ tasks = << >>
    /\ gets = << >>
    /\ io = << >>
    /\ TAR_CACHE = TarCache(DEFAULT_MAX_SIZE)
    /\ tc = IdleTar

NextOverlay ==
    \/ FuseLinkCall(OverlaySrc, ClientDst)
    \/ \E path \in OverlayCreated : CreateDirAllCall(path)
    \/ \E path \in OverlayDirs : ReadStart(path, TRUE)
    \/ ReadRegistry
    \/ ReadFuse
    \/ ReadDirect
    \/ ReadReturn

SpecOverlay == InitOverlay /\ [][NextOverlay]_vars

(***************************************************************************)
(* Scenario of concurrent fuse_link calls: each call is a task that is     *)
(* suspended at its two awaits (create_dir_all, write) and resumed in any  *)
(* order.  io[c] is call c: its arguments, its position and the sentinel   *)
(* path it computed; linked[dst] lists the sources written to the sentinel *)
(* of dst, in the order storage received them.                             *)
(***************************************************************************)
LinkCalls == 1..MaxLinkCalls
LinkDsts == { "/p/node_modules/a", "/p/node_modules/@s/b" }
IdleLink == [pc |-> "idle", src |-> "", dst |-> "", fl |-> None, ok |-> FALSE]

InitLink ==
    /\ fs = Unpacked
    /\ io = [c \in LinkCalls |-> IdleLink]
    /\ FUSE_LINK_CACHE = << >>
    /\ PACKAGE_METADATA_CACHE = << >>
    /\ FETCHED_DIRS_CACHE = {}
    /\ rd = IdleRead
    /\ linked = [d \in DstDirs |-> << >>]
    /\ inst = IdleInstall
    /\ tasks = << >>
    /\ gets = << >>
    /\ TAR_CACHE = TarCache(DEFAULT_MAX_SIZE)
    /\ tc = IdleTar

\* fuse_link(src, dst) is called: the task runs up to the await of create_dir_all
LinkStart(c, src, dst) ==
    /\ io[c].pc = "idle"
    /\ io' = [io EXCEPT ![c] = [IdleLink EXCEPT !.pc = "create_dir_all", !.src = src, !.dst = dst]]
    /\ UNCHANGED <<TAR_CACHE, tc, fs, FUSE_LINK_CACHE, PACKAGE_METADATA_CACHE, FETCHED_DIRS_CACHE,
                   rd, linked, inst, tasks, gets>>

\* create_dir_all takes effect on storage; the task is ready to resume
LinkCreateDir(c) ==
    /\ io[c].pc = "create_dir_all"
    /\ LET mk == CreateDirAll(fs, io[c].dst) IN
        /\ fs' = mk.fs
        /\ io' = [io EXCEPT ![c].pc = IF mk.ok THEN "path" ELSE "done"]
    /\ UNCHANGED <<TAR_CACHE, tc, FUSE_LINK_CACHE, PACKAGE_METADATA_CACHE, FETCHED_DIRS_CACHE,
                   rd, linked, inst, tasks, gets>>

\* the task resumes: get_fuse_link_path(dst), then the write is handed to
\* storage and takes effect
LinkWrite(c) ==
    /\ io[c].pc = "path"
    /\ \E fl \in get_fuse_link_path(FUSE_LINK_CACHE, io[c].dst) :
        IF fl = None
        THEN /\ io' = [io EXCEPT ![c].pc = "done"]
             /\ UNCHANGED <<fs, linked>>
        ELSE LET wr == WriteFile(fs, Unwrap(fl), io[c].src \o "\n") IN
             /\ fs' = wr.fs
             /\ io' = [io EXCEPT ![c].pc = IF wr.ok THEN "write" ELSE "done", ![c].fl = fl]
             /\ linked' = IF wr.ok THEN [linked EXCEPT ![io[c].dst] = Append(@, io[c].src)]
                          ELSE linked
    /\ UNCHANGED <<TAR_CACHE, tc, FUSE_LINK_CACHE, PACKAGE_METADATA_CACHE, FETCHED_DIRS_CACHE,
                   rd, inst, tasks, gets>>

\* the task resumes after the write: the mapping is cached and the call returns
LinkFinish(c) ==
    /\ io[c].pc = "write"
    /\ FUSE_LINK_CACHE' = [k \in DOMAIN FUSE_LINK_CACHE \cup { Unwrap(io[c].fl) } |->
                             IF k = Unwrap(io[c].fl) THEN io[c].src ELSE FUSE_LINK_CACHE[k]]
    /\ io' = [io EXCEPT ![c].pc = "done", ![c].ok = TRUE]
    /\ UNCHANGED <<TAR_CACHE, tc, fs, PACKAGE_METADATA_CACHE, FETCHED_DIRS_CACHE,
                   rd, linked, inst, tasks, gets>>

NextLink ==
    \/ \E c \in LinkCalls, src \in SrcDirs, dst \in LinkDsts : LinkStart(c, src, dst)
    \/ \E c \in LinkCalls : LinkCreateDir(c)
    \/ \E c \in LinkCalls : LinkWrite(c)
    \/ \E c \in LinkCalls : LinkFinish(c)

SpecLink == InitLink /\ [][NextLink]_vars

(***************************************************************************)
(* Scenario of tasks sharing the process-wide caches.  Each task runs one  *)
(* cache-backed operation: it takes the lock of the cache and looks up; on *)
(* a hit it returns or, in try_read_dir_through_registry, awaits the       *)
(* physical listing inside the block that holds the guard; on a miss it    *)
(* drops the guard, awaits storage or the registry, and takes the lock     *)
(* again to insert.  tasks[c] is task c: its call, the await it is         *)
(* suspended at and the guards alive across that await.                    *)
(***************************************************************************)
LockTasks == { 1, 2 }
LockCalls ==
    { [op |-> "try_read_dir_through_registry", path |-> "/p/node_modules/a"],
      [op |-> "get_package_metadata", path |-> "/p/node_modules/a/index.js"],
      [op |-> "get_fuse_link_target_path", path |-> "/p/node_modules/@s/b/package.json"],
      [op |-> "extract_file_cached", path |-> "/stores/b/-/b.tgz"] }
IdleTask == [op |-> "", path |-> "", pc |-> "idle", held |-> {}]

\* the lookup under the lock found what the call asks for
CacheHit(call) ==
    IF call.op = "try_read_dir_through_registry" THEN call.path \in FETCHED_DIRS_CACHE
    ELSE IF call.op = "get_package_metadata"
    THEN \E ip \in DOMAIN PACKAGE_METADATA_CACHE : StartsWith(RelativeToCwd(call.path), ip)
    ELSE IF call.op = "get_fuse_link_target_path"
    THEN \E fl \in get_fuse_link_path(FUSE_LINK_CACHE, call.path) :
            fl # None /\ Unwrap(fl) \in DOMAIN FUSE_LINK_CACHE
    ELSE has_tgz(TAR_CACHE, call.path)

\* the task after the lookup: the await it is suspended at and the guards
\* alive across it
Suspension(call, hit) ==
    IF call.op = "try_read_dir_through_registry"
    THEN (IF hit THEN [pc |-> "read_dir_direct", held |-> { "FETCHED_DIRS_CACHE" }]
          ELSE [pc |-> "fetch_file_list", held |-> {}])
    ELSE IF hit THEN [pc |-> "returned", held |-> {}]
    ELSE IF call.op = "extract_file_cached" THEN [pc |-> "load_tgz_to_cache", held |-> {}]
    ELSE [pc |-> "read_to_string", held |-> {}]

\* the cache a call locks for writing when it inserts
Inserts(call) ==
    IF call.op = "try_read_dir_through_registry" THEN "FETCHED_DIRS_CACHE"
    ELSE IF call.op = "get_package_metadata" THEN "PACKAGE_METADATA_CACHE"
    ELSE IF call.op = "get_fuse_link_target_path" THEN "FUSE_LINK_CACHE"
    ELSE "TAR_CACHE"

\* what the operation leaves in storage and in the caches
Applied(call) ==
    IF call.op = "try_read_dir_through_registry"
    THEN /\ \E o \in try_read_dir_through_registry(fs, PACKAGE_METADATA_CACHE,
                                                   FETCHED_DIRS_CACHE, call.path, "ok") :
              /\ fs' = o.fs
              /\ PACKAGE_METADATA_CACHE' = o.meta
              /\ FETCHED_DIRS_CACHE' = o.fetched
         /\ UNCHANGED <<FUSE_LINK_CACHE, TAR_CACHE>>
    ELSE IF call.op = "get_package_metadata"
    THEN /\ PACKAGE_METADATA_CACHE' =
                get_package_metadata(fs, PACKAGE_METADATA_CACHE, call.path).meta
         /\ UNCHANGED <<fs, FETCHED_DIRS_CACHE, FUSE_LINK_CACHE, TAR_CACHE>>
    ELSE IF call.op = "get_fuse_link_target_path"
    THEN /\ \E t \in get_fuse_link_target_path(fs, FUSE_LINK_CACHE, call.path) :
              FUSE_LINK_CACHE' = t.cache
         /\ UNCHANGED <<fs, PACKAGE_METADATA_CACHE, FETCHED_DIRS_CACHE, TAR_CACHE>>
    ELSE /\ \E l \in (IF has_tgz(TAR_CACHE, call.path) THEN { [ok |-> TRUE, cache |-> TAR_CACHE] }
                      ELSE load_tgz_to_cache(fs, TAR_CACHE, call.path)) :
              \E now \in Now(l.cache) :
                 TAR_CACHE' = ExtractResult(l.cache, call.path, "package/package.json", now).cache
         /\ UNCHANGED <<fs, PACKAGE_METADATA_CACHE, FETCHED_DIRS_CACHE, FUSE_LINK_CACHE>>

InitLocks ==
    /\ fs = ("/p/package-lock.json" :> FileNode("lock-3"))
            @@ ("/p/node_modules" :> DirNode) @@ ("/p/node_modules/@s" :> DirNode)
            @@ ("/p/node_modules/@s/b" :> DirNode)
            @@ ("/p/node_modules/@s/b/fuse.link" :> FileNode("/stores/b/-/b.tgz-unpack\n"))
            @@ Fresh @@ StoreAB
    /\ tasks = [c \in LockTasks |-> IdleTask]
    /\ FUSE_LINK_CACHE = << >>
    /\ PACKAGE_METADATA_CACHE = << >>
    /\ FETCHED_DIRS_CACHE = {}
    /\ rd = IdleRead
    /\ linked = [d \in DstDirs |-> << >>]
    /\ inst = IdleInstall
    /\ gets = << >>
    /\ io = << >>
    /\ TAR_CACHE = TarCache(DEFAULT_MAX_SIZE)
    /\ tc = IdleTar

\* a task calls an operation, which runs up to its first await: a hit that
\* needs no await is served at once
LockedLookup(c, call) ==
    /\ tasks[c].pc = "idle"
    /\ LET s == Suspension(call, CacheHit(call)) IN
        /\ tasks' = [tasks EXCEPT ![c] = [op |-> call.op, path |-> call.path,
                                          pc |-> s.pc, held |-> s.held]]
        /\ IF s.pc = "returned" THEN Applied(call)
           ELSE UNCHANGED <<fs, PACKAGE_METADATA_CACHE, FETCHED_DIRS_CACHE, FUSE_LINK_CACHE,
                            TAR_CACHE>>
    /\ UNCHANGED <<tc, rd, linked, inst, gets, io>>

\* the await of a suspended task completes: the task goes on to its end, which
\* on a miss takes the lock again to insert and so waits for the guards that
\* other tasks hold on that cache
Resumed(c) ==
    /\ tasks[c].pc \notin { "idle", "returned" }
    /\ \/ tasks[c].held # {}
       \/ \A d \in LockTasks \ { c } : Inserts(tasks[c]) \notin tasks[d].held
    /\ Applied(tasks[c])
    /\ tasks' = [tasks EXCEPT ![c].pc = "returned", ![c].held = {}]
    /\ UNCHANGED <<tc, rd, linked, inst, gets, io>>

\* the caller takes the result
Returned(c) ==
    /\ tasks[c].pc = "returned"
    /\ tasks' = [tasks EXCEPT ![c] = IdleTask]
    /\ UNCHANGED <<TAR_CACHE, tc, fs, FUSE_LINK_CACHE, PACKAGE_METADATA_CACHE, FETCHED_DIRS_CACHE,
                   rd, linked, inst, gets, io>>

NextLocks ==
    \/ \E c \in LockTasks, call \in LockCalls : LockedLookup(c, call)
    \/ \E c \in LockTasks : Resumed(c)
    \/ \E c \in LockTasks : Returned(c)

SpecLocks == InitLocks /\ [][NextLocks]_vars

(***************************************************************************)
(* Scenario of descriptor lookups on an evicted cache: the cache is filled *)
(* from the lockfile of the working directory by init_registry_fs, the     *)
(* size check evicts entries (its limit scaled down to the lockfile of a   *)
(* few packages), and registry reads look up paths inside and outside the *)
(* packages.  rd holds the path looked up and, in rd.trace, the            *)
(* Option<PackageMetadata> returned.                                       *)
(***************************************************************************)
LookupPaths == { "/p/node_modules/a", "/p/node_modules/a/package.json",
                 "/p/node_modules/a/node_modules/b/package.json",
                 "/p/node_modules/a/node_modules/b/lib/x.js",
                 "/p/node_modules/b/package.json", "/p/node_modules/@s/b/lib/x.js",
                 "/p/node_modules/b", "/p/node_modules/a/index.js",
                 "/p/node_modules/c/index.js", "/p/node_modules/ab/index.js",
                 "/p/x.txt" }
EvictLimits == { 0, 1 }

InitLookup ==
    /\ \E text \in ProjectLocks \cup { "lock-3" } : fs = ("/p/package-lock.json" :> FileNode(text)) @@ Fresh
    /\ FUSE_LINK_CACHE = << >>
    /\ PACKAGE_METADATA_CACHE = << >>
    /\ FETCHED_DIRS_CACHE = {}
    /\ rd = IdleRead
    /\ linked = [d \in DstDirs |-> << >>]
    /\ inst = IdleInstall
    /\ tasks = << >>
    /\ gets = << >>
    /\ io = << >>
    /\ TAR_CACHE = TarCache(DEFAULT_MAX_SIZE)
    /\ tc = IdleTar

\* lib.rs init_registry_fs(cwd/package-lock.json)
InitRegistryFsCall ==
    /\ \E o \in init_from_package_lock(fs, PACKAGE_METADATA_CACHE, Join(Cwd, "package-lock.json")) :
          PACKAGE_METADATA_CACHE' = o.meta
    /\ UNCHANGED <<TAR_CACHE, tc, fs, FUSE_LINK_CACHE, FETCHED_DIRS_CACHE,
                   rd, linked, inst, tasks, gets, io>>

\* the size check evicts
Evicted(max) ==
    /\ PACKAGE_METADATA_CACHE' \in evict_metadata(PACKAGE_METADATA_CACHE, max)
    /\ UNCHANGED <<TAR_CACHE, tc, fs, FUSE_LINK_CACHE, FETCHED_DIRS_CACHE,
                   rd, linked, inst, tasks, gets, io>>

\* a registry read reaches its lookup: ensure_initialized, then
\* get_package_metadata(path), which returns
Lookup(path) ==
    /\ rd.pc = "idle"
    /\ \E init \in ensure_initialized(fs, PACKAGE_METADATA_CACHE) :
        LET g == get_package_metadata(fs, init.meta, path) IN
        /\ init.ok
        /\ PACKAGE_METADATA_CACHE' = g.meta
        /\ rd' = [IdleRead EXCEPT !.pc = "done", !.path = path, !.trace = g.md]
    /\ UNCHANGED <<TAR_CACHE, tc, fs, FUSE_LINK_CACHE, FETCHED_DIRS_CACHE,
                   linked, inst, tasks, gets, io>>

NextLookup ==
    \/ InitRegistryFsCall
    \/ \E max \in EvictLimits : Evicted(max)
    \/ \E path \in LookupPaths : Lookup(path)
    \/ ReadReturn

SpecLookup == InitLookup /\ [][NextLookup]_vars

(***************************************************************************)
(* Scenario of the registry caches at their limits: the limits are scaled  *)
(* down to lockfiles of a few packages.  The descriptor cache is filled by *)
(* init_registry_fs from two lockfiles, lookups fall back to the lockfile  *)
(* and add entries back, and read_dir records the directories it listed.   *)
(* Every action is one whole registry-fs operation.                        *)
(***************************************************************************)
MetadataLimit == 1
FetchedLimit == 2
BoundLocks == { "/p/package-lock.json", "/p/other-lock.json" }
BoundDirs == { "/p/node_modules/a", "/p/node_modules/b", "/p/node_modules/b/lib",
               "/p/node_modules/a/node_modules/b", "/p/node_modules/a/node_modules/b/lib" }

InitBounds ==
    /\ fs = ("/p/package-lock.json" :> FileNode("lock-1"))
            @@ ("/p/other-lock.json" :> FileNode("lock-2")) @@ Fresh
    /\ FUSE_LINK_CACHE = << >>
    /\ PACKAGE_METADATA_CACHE = << >>
    /\ FETCHED_DIRS_CACHE = {}
    /\ rd = IdleRead
    /\ linked = [d \in DstDirs |-> << >>]
    /\ inst = IdleInstall
    /\ tasks = << >>
    /\ gets = << >>
    /\ io = << >>
    /\ TAR_CACHE = TarCache(DEFAULT_MAX_SIZE)
    /\ tc = IdleTar

\* init_registry_fs(lock_file_path): the entries are inserted, then the size
\* check runs
BoundedInit(lock_file_path) ==
    /\ \E o \in init_from_package_lock(fs, PACKAGE_METADATA_CACHE, lock_file_path) :
          PACKAGE_METADATA_CACHE' \in evict_metadata(o.meta, MetadataLimit)
    /\ UNCHANGED <<TAR_CACHE, tc, fs, FUSE_LINK_CACHE, FETCHED_DIRS_CACHE,
                   rd, linked, inst, tasks, gets, io>>

\* get_package_metadata(path): an entry found on disk is added back unless
\* the cache holds twice the limit
BoundedLookup(path) ==
    /\ PACKAGE_METADATA_CACHE' =
          IF Cardinality(DOMAIN PACKAGE_METADATA_CACHE) < MetadataLimit * 2
          THEN get_package_metadata(fs, PACKAGE_METADATA_CACHE, path).meta
          ELSE PACKAGE_METADATA_CACHE
    /\ UNCHANGED <<TAR_CACHE, tc, fs, FUSE_LINK_CACHE, FETCHED_DIRS_CACHE,
                   rd, linked, inst, tasks, gets, io>>

\* read_dir(path) answered by the registry layer: ensure_initialized fills an
\* empty descriptor cache (followed by its size check), the lookup adds an
\* entry back unless the cache holds twice the limit, and a path newly
\* recorded is followed by the size check of the set; rd keeps the path
BoundedReadDir(path) ==
    /\ \E init \in ensure_initialized(fs, PACKAGE_METADATA_CACHE) :
       \E m \in (IF DOMAIN PACKAGE_METADATA_CACHE = {}
                 THEN evict_metadata(init.meta, MetadataLimit)
                 ELSE { PACKAGE_METADATA_CACHE }) :
       \E o \in try_read_dir_through_registry(fs, m, FETCHED_DIRS_CACHE, path, "ok") :
        /\ fs' = o.fs
        /\ PACKAGE_METADATA_CACHE' =
              IF Cardinality(DOMAIN m) < MetadataLimit * 2 THEN o.meta ELSE m
        /\ FETCHED_DIRS_CACHE' \in
              (IF o.fetched # FETCHED_DIRS_CACHE THEN evict_fetched(o.fetched, FetchedLimit)
               ELSE { o.fetched })
        /\ rd' = [IdleRead EXCEPT !.path = path, !.dir = TRUE, !.out = o.ans]
    /\ UNCHANGED <<TAR_CACHE, tc, FUSE_LINK_CACHE, linked, inst, tasks, gets, io>>

NextBounds ==
    \/ \E lock_file_path \in BoundLocks : BoundedInit(lock_file_path)
    \/ \E path \in BoundDirs : BoundedLookup(path)
    \/ \E path \in BoundDirs : BoundedReadDir(path)
    \/ ClearRegistryCacheCall

SpecBounds == InitBounds /\ [][NextBounds]_vars

(***************************************************************************)
(* Scenario of the archive cache: the archives of a and b are in the       *)
(* store, callers extract entries from them, the budget is changed, the    *)
(* cache is cleared, and the installer saves other bytes over an archive.  *)
(***************************************************************************)
TgzPaths == { "/stores/a/-/a.tgz", "/stores/b/-/b.tgz" }
EntryPaths == { "package/package.json", "package/index.js", "package/lib/x.js",
                "package/lib" }
MaxSizes == { 0, 24, 40, 48 }

InitTar ==
    /\ fs = Fresh @@ StoreAB
    /\ FUSE_LINK_CACHE = << >>
    /\ PACKAGE_METADATA_CACHE = << >>
    /\ FETCHED_DIRS_CACHE = {}
    /\ rd = IdleRead
    /\ linked = [d \in DstDirs |-> << >>]
    /\ inst = IdleInstall
    /\ tasks = << >>
    /\ gets = << >>
    /\ io = << >>
    /\ TAR_CACHE = TarCache(DEFAULT_MAX_SIZE)
    /\ tc = IdleTar

NextTar ==
    \/ \E tgz_path \in TgzPaths, file_path \in EntryPaths : ExtractStart(tgz_path, file_path)
    \/ ExtractLoad
    \/ \E n \in MaxSizes : SetMaxSize(n)
    \/ ClearCache
    \/ \E tgz_path \in TgzPaths, bytes \in { TgzA, TgzB, Garbage } :
          ReplaceArchive(tgz_path, bytes)

SpecTar == InitTar /\ [][NextTar]_vars

(***************************************************************************)
(* Scenario of racing archive reads: two callers of extract_file_cached    *)
(* run on the one thread and interleave at the await of the archive load,  *)
(* so both can find the archive missing and both admit it.                 *)
(***************************************************************************)
RaceTasks == { 1, 2 }
RaceEntries == { "package/package.json", "package/lib" }
RaceSizes == { 0, 24, 48 }
RaceTgz == { "/stores/a/-/a.tgz", "/stores/b/-/b.tgz", "/stores/c/-/c.tgz" }

\* extract_file_cached of caller c up to the await of load_tgz_to_cache
RaceStart(c, tgz_path, file_path) ==
    /\ tasks[c].pc = "idle"
    /\ IF has_tgz(TAR_CACHE, tgz_path)
       THEN \E now \in Now(TAR_CACHE) :
               LET r == ExtractResult(TAR_CACHE, tgz_path, file_path, now) IN
               /\ TAR_CACHE' = r.cache
               /\ tasks' = [tasks EXCEPT ![c] =
                      [pc |-> "idle", tgz_path |-> tgz_path, file_path |-> file_path,
                       result |-> r.result, content |-> r.content,
                       fresh |-> FreshExtract(fs, tgz_path, file_path)]]
       ELSE /\ tasks' = [tasks EXCEPT ![c] =
                      [IdleTar EXCEPT !.pc = "load", !.tgz_path = tgz_path,
                                      !.file_path = file_path]]
            /\ UNCHANGED TAR_CACHE
    /\ UNCHANGED <<fs, FUSE_LINK_CACHE, PACKAGE_METADATA_CACHE, FETCHED_DIRS_CACHE,
                   rd, linked, inst, gets, io, tc>>

\* extract_file_cached of caller c from the completion of the storage read on
RaceLoad(c) ==
    /\ tasks[c].pc = "load"
    /\ \E l \in load_tgz_to_cache(fs, TAR_CACHE, tasks[c].tgz_path) :
          IF ~l.ok
          THEN /\ TAR_CACHE' = l.cache
               /\ tasks' = [tasks EXCEPT ![c] =
                      [@ EXCEPT !.pc = "idle", !.result = "err", !.content = "load",
                                !.fresh = FreshExtract(fs, tasks[c].tgz_path, tasks[c].file_path)]]
          ELSE \E now \in Now(l.cache) :
                  LET r == ExtractResult(l.cache, tasks[c].tgz_path, tasks[c].file_path, now) IN
                  /\ TAR_CACHE' = r.cache
                  /\ tasks' = [tasks EXCEPT ![c] =
                         [@ EXCEPT !.pc = "idle", !.result = r.result,
                                   !.content = r.content,
                                   !.fresh = FreshExtract(fs, tasks[c].tgz_path, tasks[c].file_path)]]
    /\ UNCHANGED <<fs, FUSE_LINK_CACHE, PACKAGE_METADATA_CACHE, FETCHED_DIRS_CACHE,
                   rd, linked, inst, gets, io, tc>>

InitRace ==
    /\ fs = Fresh @@ StoreAB @@ ("/stores/c" :> DirNode) @@ ("/stores/c/-" :> DirNode)
                  @@ ("/stores/c/-/c.tgz" :> FileNode(TgzMixed))
    /\ FUSE_LINK_CACHE = << >>
    /\ PACKAGE_METADATA_CACHE = << >>
    /\ FETCHED_DIRS_CACHE = {}
    /\ rd = IdleRead
    /\ linked = [d \in DstDirs |-> << >>]
    /\ inst = IdleInstall
    /\ tasks = [c \in RaceTasks |-> IdleTar]
    /\ gets = << >>
    /\ io = << >>
    /\ TAR_CACHE = TarCache(DEFAULT_MAX_SIZE)
    /\ tc = IdleTar

NextRace ==
    \/ \E c \in RaceTasks, tgz_path \in RaceTgz, file_path \in RaceEntries :
          RaceStart(c, tgz_path, file_path)
    \/ \E c \in RaceTasks : RaceLoad(c)
    \/ \E n \in RaceSizes : SetMaxSize(n)
    \/ ClearCache

SpecRace == InitRace /\ [][NextRace]_vars

(***************************************************************************)
(* Scenario of the two views of an archive: the archives of four packages  *)
(* are in the store; each is unpacked by extract_tgz_bytes into its unpack *)
(* directory and read entry by entry through the archive cache.  io is the *)
(* set of archives unpacked so far.                                        *)
(***************************************************************************)
ViewTgz == { "/stores/a/-/a.tgz", "/stores/b/-/b.tgz", "/stores/c/-/c.tgz",
             "/stores/d/-/d.tgz" }
ViewEntries == { "package/package.json", "package/x.js" }

RECURSIVE WriteEntries(_, _, _)
\* extract_entries: save_tgz of every file entry in archive order; [ok, fs]
WriteEntries(f, writes, i) ==
    IF i > Len(writes) THEN [ok |-> TRUE, fs |-> f]
    ELSE LET sv == save_tgz(f, writes[i].out_path, writes[i].contents) IN
         IF ~sv.ok THEN sv ELSE WriteEntries(sv.fs, writes, i + 1)

\* extract_tgz_bytes: [ok, fs]
extract_tgz_bytes(f, tgz_bytes, extract_dir) ==
    IF Decode(tgz_bytes) = None THEN [ok |-> FALSE, fs |-> f]
    ELSE WriteEntries(f, extract_entries(Unwrap(Decode(tgz_bytes)), extract_dir), 1)

\* the unpack directory of an archive of the store (PackagePaths::new)
UnpackDir(tgz_path) == tgz_path \o "-unpack"

\* extract_tgz_bytes of the archive stored at tgz_path into its unpack directory
ExtractTgzCall(tgz_path) ==
    /\ tgz_path \notin io
    /\ IsFile(fs, tgz_path)
    /\ LET x == extract_tgz_bytes(fs, Unwrap(ReadFile(fs, tgz_path)), UnpackDir(tgz_path)) IN
        /\ x.ok
        /\ fs' = x.fs
    /\ io' = io \cup { tgz_path }
    /\ UNCHANGED <<FUSE_LINK_CACHE, PACKAGE_METADATA_CACHE, FETCHED_DIRS_CACHE,
                   rd, linked, inst, tasks, gets, TAR_CACHE, tc>>

InitViews ==
    /\ fs = Fresh @@ ("/stores" :> DirNode)
               @@ ("/stores/a" :> DirNode) @@ ("/stores/a/-" :> DirNode)
               @@ ("/stores/a/-/a.tgz" :> FileNode(TgzA))
               @@ ("/stores/b" :> DirNode) @@ ("/stores/b/-" :> DirNode)
               @@ ("/stores/b/-/b.tgz" :> FileNode(TgzB))
               @@ ("/stores/c" :> DirNode) @@ ("/stores/c/-" :> DirNode)
               @@ ("/stores/c/-/c.tgz" :> FileNode(TgzMixed))
               @@ ("/stores/d" :> DirNode) @@ ("/stores/d/-" :> DirNode)
               @@ ("/stores/d/-/d.tgz" :> FileNode(TgzDirs))
    /\ FUSE_LINK_CACHE = << >>
    /\ PACKAGE_METADATA_CACHE = << >>
    /\ FETCHED_DIRS_CACHE = {}
    /\ rd = IdleRead
    /\ linked = [d \in DstDirs |-> << >>]
    /\ inst = IdleInstall
    /\ tasks = [c \in { 1 } |-> IdleTar]
    /\ gets = << >>
    /\ io = {}
    /\ TAR_CACHE = TarCache(DEFAULT_MAX_SIZE)
    /\ tc = IdleTar

NextViews ==
    \/ \E tgz_path \in ViewTgz : ExtractTgzCall(tgz_path)
    \/ \E c \in DOMAIN tasks, tgz_path \in ViewTgz, file_path \in ViewEntries :
          RaceStart(c, tgz_path, file_path)
    \/ \E c \in DOMAIN tasks : RaceLoad(c)

SpecViews == InitViews /\ [][NextViews]_vars

(***************************************************************************)
(* Properties of the installer (SpecInstall, SpecRead)                     *)
(***************************************************************************)
\* the archive bytes of the installed file at an absolute path
ArchiveBytesAt(path) ==
    LET k == CHOOSE k \in ProjectKeys : path \in DOMAIN InstalledFiles(k)
    IN  InstalledFiles(k)[path]

\* C6: once install_deps has returned Ok, read(install_path/R) returns the
\* bytes of R in the package's archive, whether or not the working directory
\* holds a package-lock.json.
C6_ReadsArchiveBytes ==
    (rd.pc = "done" /\ inst.pc = "idle" /\ inst.result = "ok") =>
        /\ rd.out.res = "Some"
        /\ rd.out.data = ArchiveBytesAt(rd.path)

\* the sentinel files on storage
Sentinels(f) == { q \in DOMAIN f : ~f[q].dir /\ FileName(q) = Some("fuse.link") }

\* C7: after a successful install the sentinels on storage are exactly the
\* files install_path/fuse.link of the lockfile's packages.
C7_SentinelsExactly ==
    (inst.pc = "idle" /\ inst.result = "ok") =>
        Sentinels(fs) = { Canon(Join(k, "fuse.link")) : k \in ProjectKeys }

\* C8: within one install call no resolved URL is fetched more than once,
\* and after a successful call the packages that share a URL have sentinels
\* with the same first line.
C8_OneGetPerUrl ==
    /\ \A u \in DOMAIN gets : gets[u] <= 1
    /\ (inst.pc = "idle" /\ inst.result = "ok") =>
          \A k1, k2 \in ProjectKeys :
              InfoOf(k1).tgz_url = InfoOf(k2).tgz_url =>
                  /\ IsFile(fs, Join(k1, "fuse.link")) /\ IsFile(fs, Join(k2, "fuse.link"))
                  /\ FirstLine(Unwrap(ReadFile(fs, Join(k1, "fuse.link"))))
                        = FirstLine(Unwrap(ReadFile(fs, Join(k2, "fuse.link"))))

\* C9: for a package with an integrity or a shasum, every byte string its
\* install_package future writes to the store or hands to extraction
\* verifies; a future whose download failed verification has failed, and has
\* written nothing to the store, extracted nothing, and written neither
\* marker nor sentinel.
C9_OnlyVerifiedBytes ==
    \A k \in DOMAIN io :
        (InfoOf(k).integrity # None \/ InfoOf(k).shasum # None) =>
            /\ \A bytes \in io[k].stored \cup io[k].extracted :
                  verify_integrity(bytes, InfoOf(k).integrity, InfoOf(k).shasum)
            /\ io[k].rejected =>
                  /\ tasks[k].pc = "failed"
                  /\ inst.pc = "idle" /\ inst.result = "err"
                  /\ io[k].stored = {} /\ io[k].extracted = {}
                  /\ ~io[k].marker /\ ~io[k].sentinel

\* one install call in which a package with a hash was downloaded, stored and
\* extracted and the download of another one was rejected
C9_RejectedBesideVerified ==
    \E k1, k2 \in DOMAIN io :
        /\ InfoOf(k1).integrity # None \/ InfoOf(k1).shasum # None
        /\ InfoOf(k2).integrity # None \/ InfoOf(k2).shasum # None
        /\ io[k1].rejected
        /\ io[k2].stored # {} /\ io[k2].extracted # {} /\ io[k2].marker

\* the unpack directory of package k holds every file of the published archive
Complete(f, k) ==
    LET writes == extract_entries(Unwrap(Decode(Published(Unwrap(InfoOf(k).tgz_url)))),
                                  PathsOf(k).unpacked_dir)
    IN  \A i \in 1..Len(writes) : ReadFile(f, writes[i].out_path) = Some(writes[i].contents)

\* C10: whenever the cache check holds for a package (its marker is a file
\* and its unpack path is a directory), the unpack directory holds the
\* complete extraction of the archive.
C10_CachedMeansComplete ==
    \A k \in ProjectKeys : is_cached(fs, PathsOf(k)) => Complete(fs, k)

\* the part of storage under the package store
StorePart(f) == [q \in { q \in DOMAIN f : PathStartsWith(q, "/stores") } |-> f[q]]

\* C12: when an install_deps call that found every package cached and
\* holding its sentinel returns Ok, it has issued no GET, the store is as it
\* was, and every sentinel has the content the previous run gave it.
C12_RepeatedInstallSameOutcome ==
    (inst.pc = "idle" /\ inst.result = "ok") =>
        /\ \A u \in DOMAIN gets : gets[u] = 0
        /\ StorePart(fs) = StorePart(AfterInstall(inst.lock).fs)
        /\ \A k \in ProjectKeys :
              ReadFile(fs, Join(k, "fuse.link"))
                  = ReadFile(AfterInstall(inst.lock).fs, Join(k, "fuse.link"))

(***************************************************************************)
(* Properties of installs over an existing store (SpecStore)               *)
(***************************************************************************)
\* the marker path holds a directory or the unpack path holds a file
WrongKind(f, paths) == IsDir(f, paths.resolved_marker) \/ IsFile(f, paths.unpacked_dir)

ProjectLock == Unwrap(from_json(inst.lock))
UnresolvedKeys == { k \in DOMAIN ProjectLock \ { "" } : ProjectLock[k].resolved = None }
\* install_deps has returned
DepsReturned == inst.pc = "idle" /\ inst.call = "install_deps" /\ inst.result # "none"

NamesUnresolved(msg) ==
    /\ ContainsStr(msg, "no resolved field")
    /\ \E k \in UnresolvedKeys :
          ContainsStr(msg, package_info(ProjectLock, k).name \o "@"
                               \o package_info(ProjectLock, k).version)

\* C16: install_deps on a lockfile with an entry without resolved field, and
\* install_package called without URL, return an error whose message holds
\* "no resolved field" and the package as name@version
C16_ErrorNamesPackage ==
    /\ (DepsReturned /\ UnresolvedKeys # {}) =>
          inst.result = "err" /\ NamesUnresolved(inst.error)
    /\ (inst.pc = "idle" /\ inst.call = "install_package") =>
          inst.result = "err" /\ NamesUnresolved(inst.error)

\* install_deps failed on c@3.0.0 although the lockfile holds a valid entry
C16_MixedLockfileFails ==
    /\ DepsReturned /\ inst.result = "err"
    /\ inst.error = "c@3.0.0: no resolved field"
    /\ \E k \in DOMAIN ProjectLock \ { "" } : ProjectLock[k].resolved # None

\* an entry the inclusion filters exclude whatever omit names: optional and
\* bound to an os or a cpu
PlatformOptional(pkg) ==
    pkg.optional = Some(TRUE) /\ (pkg.os # None \/ pkg.cpu # None)

\* C17: install_deps creates neither a sentinel nor a directory, and issues
\* no download, for an entry that is optional and carries an os or cpu
\* constraint
C17_PlatformOptionalExcluded ==
    (DepsReturned /\ inst.result = "ok") =>
        \A k \in DOMAIN ProjectLock \ { "" } :
            PlatformOptional(ProjectLock[k]) =>
                /\ ~Exists(fs, Join(k, "fuse.link"))
                /\ ~Exists(fs, k)
                /\ gets[Unwrap(ProjectLock[k].resolved)] = 0

(***************************************************************************)
(* Properties of the archive cache (SpecTar)                               *)
(***************************************************************************)
RECURSIVE SumSizes(_, _)
SumSizes(c, keys) ==
    IF keys = {} THEN 0
    ELSE LET k == CHOOSE k \in keys : TRUE
         IN  c.cache[k].total_size + SumSizes(c, keys \ { k })

\* C13: in every state of the archive cache reached by admissions, reads,
\* set_max_size and clear_cache, the total sizes of the cached archives sum
\* to current_size and to at most max_size
C13_WithinBudget ==
    /\ SumSizes(TAR_CACHE, DOMAIN TAR_CACHE.cache) = TAR_CACHE.current_size
    /\ SumSizes(TAR_CACHE, DOMAIN TAR_CACHE.cache) <= TAR_CACHE.max_size

\* the budget is the size of one archive and one archive is cached, yet not
\* the one the last call was served from: both were cached when the budget
\* was lowered, and set_max_size evicted the one read last
C13_LoweredAndEvicted ==
    /\ TAR_CACHE.max_size = 24
    /\ Cardinality(DOMAIN TAR_CACHE.cache) = 1
    /\ TAR_CACHE.current_size = 24
    /\ tc.pc = "idle" /\ tc.result = "ok"
    /\ tc.tgz_path \notin DOMAIN TAR_CACHE.cache

\* C14: extract_file_cached returns what a fresh decompression of the
\* archive's content at the time of the return gives for the entry
C14_SameAsFreshDecompression ==
    tc.result # "none" =>
        \/ tc.result = "ok" /\ tc.fresh = Some(tc.content)
        \/ tc.result = "err" /\ tc.fresh = None
(***************************************************************************)
(* Properties of the public API (SpecClient)                               *)
(***************************************************************************)
\* the sentinel of the package directory that encloses p, when the sentinel
\* is on storage and the sentinel cache, if it holds it, agrees with it
SentinelLine(p) ==
    LET fl == InnermostSentinel(p) IN
    IF fl = None \/ ReadFile(fs, Unwrap(fl)) = None THEN None
    ELSE LET line == Trim(FirstLine(Unwrap(ReadFile(fs, Unwrap(fl))))) IN
         IF Unwrap(fl) \in DOMAIN FUSE_LINK_CACHE /\ FUSE_LINK_CACHE[Unwrap(fl)] # line
         THEN None ELSE Some(line)
\* the sentinel of p is in archive mode: ARCHIVE|PREFIX
ArchiveMode(p) == SentinelLine(p) # None /\ Contains(Unwrap(SentinelLine(p)), "|")
\* REL: p relative to the directory of its sentinel
RelOf(p) ==
    LET dir == Unwrap(Parent(Unwrap(InnermostSentinel(p)))) IN
    IF p = dir THEN "" ELSE Skip(p, Len(dir) + 1)
\* what the fuse-link layer answered in the step
FuseAnswer == rd'.trace[Len(rd'.trace)]

\* C18: for a sentinel ARCHIVE|PREFIX the fuse-link layer answers a read of
\* P with the bytes of entry PREFIX/REL of ARCHIVE when REL is not empty,
\* and fails ("is a directory") when REL is empty
C18_ArchiveModeRead ==
    [][(ReadFuse /\ ~rd.dir /\ ArchiveMode(rd.path)) =>
          LET line == Unwrap(SentinelLine(rd.path))
              ARCHIVE == SubSeq(line, 1, Find(line, "|") - 1)
              PREFIX == Skip(line, Find(line, "|"))
              REL == RelOf(rd.path)
          IN  IF REL = "" THEN FuseAnswer.res = "Err"
              ELSE /\ FuseAnswer.res = "Some"
                   /\ Some(rd'.out.data) = FreshExtract(fs, ARCHIVE, PREFIX \o "/" \o REL)
      ]_vars

\* C19: a listing that the fuse-link layer returned holds no entry named
\* fuse.link
C19_NoSentinelInListing ==
    (/\ rd.pc = "done" /\ rd.dir
     /\ rd.trace[Len(rd.trace)].layer = "fuse"
     /\ rd.out.res = "Some") =>
        \A e \in rd.out.entries : e.name # "fuse.link"

\* the calls of mutators the client makes, each with the path it is to act on
ClientCalls ==
    { <<"write", path>> : path \in ClientWrites } \cup
    { <<"create_dir", "/p/d">>, <<"create_dir_all", "/p/node_modules/@s/b/lib">>,
      <<"copy", ClientCopy>>, <<"remove_file", ClientFile>>, <<"remove_dir", "/p/d">>,
      <<"remove_dir_all", ClientDst>> }
\* the step is the call
CalledAt(call) ==
    LET path == call[2] IN
    CASE call[1] = "write" -> WriteCall(path, "client")
      [] call[1] = "create_dir" -> CreateDirCall(path)
      [] call[1] = "create_dir_all" -> CreateDirAllCall(path)
      [] call[1] = "copy" -> CopyCall(ClientFile, path)
      [] call[1] = "remove_file" -> RemoveFileCall(path)
      [] call[1] = "remove_dir" -> RemoveDirCall(path)
      [] call[1] = "remove_dir_all" -> RemoveTreeCall(path)
\* storage changes at the path (and below it) only; a missing ancestor may
\* be created as a directory
InPlace(path) ==
    \A q \in (DOMAIN fs \cup DOMAIN fs') \ { q \in DOMAIN fs \cup DOMAIN fs' :
                                                  PathStartsWith(q, Canon(path)) } :
        /\ q \in DOMAIN fs'
        /\ IF q \in DOMAIN fs THEN fs'[q] = fs[q]
           ELSE q \in Ancestors(path) /\ fs'[q] = DirNode

ClearedAll ==
    /\ rd' = rd
    /\ fs' # fs
    /\ fs' = clear_all_registry_cache(fs, PACKAGE_METADATA_CACHE, FETCHED_DIRS_CACHE).fs

\* C21: when clear_all_registry_cache returns, the in-memory registry caches
\* are empty as well: get_registry_cache_stats() is 0 and no directory is
\* remembered as fetched, so the next read_dir fetches its listing again
C21_ClearAllEmptiesMemory ==
    [][ClearedAll => /\ get_cache_stats(PACKAGE_METADATA_CACHE') = 0
                     /\ FETCHED_DIRS_CACHE' = {}]_vars

(***************************************************************************)
(* Properties of integrity verification                                    *)
(***************************************************************************)
\* the integrity string of the call names a sha512 digest
HasSha512 == io.integrity # None /\ StartsWith(Unwrap(io.integrity), "sha512-")

FuseListing == rd.pc = "fuse" /\ rd.dir /\ rd'.pc # "fuse"
\* the target directory the sentinel on storage gives for the path listed
ListedTarget == { t.target : t \in { t \in get_fuse_link_target_path(fs, << >>, rd.path) :
                                        t.res = "Some" } }
\* what the layer answered in the step
FuseAnswered == rd'.trace[Len(rd'.trace)]

\* C23: for a path that resolves through a sentinel, a failed read of the
\* physical directory with a listed target gives exactly the target's
\* entries; when both fail the layer answers "not applicable" and read_dir
\* goes on to direct storage
C23_TargetOnlyOrNotApplicable ==
    [][FuseListing =>
        \A target \in ListedTarget :
            /\ (read_dir_direct(fs, rd.path) = None /\ read_dir_direct(fs, target) # None)
                 => /\ FuseAnswered.res = "Some"
                    /\ rd'.out.entries = Unwrap(read_dir_direct(fs, target))
            /\ (read_dir_direct(fs, rd.path) = None /\ read_dir_direct(fs, target) = None)
                 => /\ FuseAnswered.res = "None"
                    /\ rd'.pc = "direct"]_vars

\* C24: when the target listing fails and the physical directory exists,
\* read_dir succeeds and returns the physical entries
C24_PhysicalEntriesSurvive ==
    [][FuseListing =>
        \A target \in ListedTarget :
            (read_dir_direct(fs, rd.path) # None /\ read_dir_direct(fs, target) = None)
                 => /\ rd'.pc = "done"
                    /\ rd'.out.res = "Some"
                    /\ rd'.out.entries =
                         { e \in Unwrap(read_dir_direct(fs, rd.path)) : e.name # "fuse.link" }]_vars

(***************************************************************************)
(* Properties of concurrent fuse_link calls                                *)
(***************************************************************************)
\* every fuse_link call that was made has returned
AllLinksCompleted == \A c \in LinkCalls : io[c].pc \in { "idle", "done" }
\* the source the sentinel of dst received last
WrittenLast(dst) == linked[dst][Len(linked[dst])]

\* C25: once all fuse_link calls have completed, whatever their
\* interleaving, the cached content of every sentinel equals the trimmed
\* first line of the sentinel on storage, the sentinel holds only the source
\* written last, and a path below the destination resolves to that source
C25_CacheMatchesSentinel ==
    AllLinksCompleted =>
        /\ \A k \in DOMAIN FUSE_LINK_CACHE :
            /\ ReadFile(fs, k) # None
            /\ FUSE_LINK_CACHE[k] = Trim(FirstLine(Unwrap(ReadFile(fs, k))))
        /\ \A dst \in LinkDsts : linked[dst] # << >> =>
            /\ ReadFile(fs, Join(dst, "fuse.link")) = Some(WrittenLast(dst) \o "\n")
            /\ \A t \in get_fuse_link_target_path(fs, FUSE_LINK_CACHE, Join(dst, "package.json")) :
                 t.res = "Some" /\ t.target = Join(WrittenLast(dst), "package.json")

(***************************************************************************)
(* Properties of a failing install                                         *)
(***************************************************************************)
\* the step in which install_deps returns the error of a failed package
InstallFails == inst.pc = "download" /\ inst'.pc = "idle" /\ inst'.result = "err"
\* the packages whose download (the GET or the save of its bytes) is in flight
Downloading == { k \in DOMAIN tasks : tasks[k].pc \in { "get", "save" } }

\* C26: when install_deps returns the error of a failed package, it links
\* nothing more, and the downloads in flight at that moment are not
\* abandoned: they run to completion
C26_InFlightDownloadsComplete ==
    [][InstallFails =>
        /\ linked' = linked
        /\ \A k \in Downloading : tasks'[k].pc \in { "failed", "get", "save" }]_vars

(***************************************************************************)
(* Properties of the cache locks                                           *)
(***************************************************************************)
\* C27: a task suspended at an await (storage I/O or HTTP) holds no lock of
\* a process-wide cache
C27_NoLockAtSuspension ==
    \A c \in LockTasks : tasks[c].pc \notin { "idle", "returned" } => tasks[c].held = {}

\* the registry layer answers a file read in this step
RegistryFileRead == rd.pc = "registry" /\ ~rd.dir /\ rd'.pc # "registry"
\* the lockfile entry of the package a path lies in
LockfileEntry(path) == Unwrap(get_package_metadata(fs, << >>, path).md)
\* /registry-fs/<host>/<name>/<version>/<rel> of a path
CachePathOf(path) ==
    get_cache_file_path(LockfileEntry(path),
        get_relative_path_in_package(path, LockfileEntry(path).install_path))
\* what the registry layer answered in the step
RegistryAnswered == rd'.trace[Len(rd'.trace)]

\* C28: a read whose cache path holds non-empty bytes returns these bytes
\* and issues no GET; bytes a GET delivered are at the cache path when the
\* read returns; an empty or missing file at the cache path leads to a GET
C28_CachedBytesServed ==
    [][RegistryFileRead =>
        LET cached == ReadFile(fs, CachePathOf(rd.path)) IN
        /\ (cached # None /\ Unwrap(cached) # "") =>
              /\ RegistryAnswered.http = "none"
              /\ rd'.out = Answer("Some", Unwrap(cached), {})
              /\ fs' = fs
        /\ (cached = None \/ cached = Some("")) => RegistryAnswered.http # "none"
        /\ RegistryAnswered.http = "ok" =>
              /\ rd'.out.res = "Some"
              /\ ReadFile(fs', CachePathOf(rd.path)) = Some(rd'.out.data)]_vars

\* a read was served from the file cache: no GET, the bytes of the cache path
C28_ServedFromFileCache ==
    /\ rd.pc = "done" /\ ~rd.dir
    /\ rd.trace[1].layer = "registry" /\ rd.trace[1].http = "none"
    /\ rd.out.res = "Some" /\ rd.out.data # ""
    /\ ReadFile(fs, CachePathOf(rd.path)) = Some(rd.out.data)

\* the registry layer answers the read_dir of a directory it listed before
SecondListing ==
    rd.pc = "registry" /\ rd.dir /\ rd.path \in FETCHED_DIRS_CACHE /\ rd'.pc # "registry"
\* the entries the first read_dir of a package directory returned: the
\* registry's listing of it
FirstListing(path) ==
    LET rel == get_relative_path_in_package(path, LockfileEntry(path).install_path) IN
    VirtualEntries(GetList(file_list_url(LockfileEntry(path), rel), "ok").body, rel)

\* C29: the second read_dir of a registry-backed package directory issues no
\* HTTP request and returns the physical listing of the directory, which
\* contains the entry names the first read_dir returned
C29_SecondListingFromStorage ==
    [][SecondListing =>
        /\ RegistryAnswered.http = "none"
        /\ rd'.out.res = "Some"
        /\ rd'.out.entries = Unwrap(read_dir_direct(fs, rd.path))
        /\ \A e \in FirstListing(rd.path) : \E x \in rd'.out.entries : x.name = e.name]_vars

(***************************************************************************)
(* Properties of descriptor lookups                                        *)
(***************************************************************************)
\* the lockfile entries with a resolved URL whose install path is a prefix
\* of the cwd-relative form of a path
Enclosing(path) ==
    LET pk == Unwrap(from_json(Unwrap(ReadFile(fs, Join(Cwd, "package-lock.json"))))) IN
    { ip \in DOMAIN pk \ { "" } :
        pk[ip].resolved # None /\ StartsWith(RelativeToCwd(path), ip) }

\* C30: whatever was evicted from the descriptor cache, a lookup returns the
\* lockfile entry with the longest install path that is a prefix of the
\* path, and nothing for a path no entry encloses
C30_LookupUnchangedByEviction ==
    rd.pc = "done" =>
        IF Enclosing(rd.path) = {} THEN rd.trace = None
        ELSE /\ rd.trace # None
             /\ Unwrap(rd.trace).install_path \in Enclosing(rd.path)
             /\ \A ip \in Enclosing(rd.path) : Len(ip) <= Len(Unwrap(rd.trace).install_path)

Recorded(path) ==
    /\ rd'.path = path /\ rd'.dir /\ rd'.out.res = "Some"
    /\ path \notin FETCHED_DIRS_CACHE
    /\ FETCHED_DIRS_CACHE' # FETCHED_DIRS_CACHE

\* C32: the eviction of the fetched-dirs set never removes the path the
\* current read_dir recorded
C32_CurrentPathKept ==
    [][\A path \in BoundDirs : Recorded(path) => path \in FETCHED_DIRS_CACHE']_vars

(***************************************************************************)
(* Properties of racing archive reads (SpecRace)                           *)
(***************************************************************************)
\* the step completes the load of caller c: its archive is admitted
Admits(c) == tasks[c].pc = "load" /\ tasks'[c].pc = "idle"

\* the step removes the entry of k, which is not the archive being admitted
EvictedFor(k, tgz_path) ==
    /\ k \in DOMAIN TAR_CACHE.cache
    /\ k \notin DOMAIN TAR_CACHE'.cache
    /\ k # tgz_path

\* after the step the entry of tgz_path is accessed no earlier than any other
MostRecent(tgz_path) ==
    \A q \in DOMAIN TAR_CACHE'.cache :
        TAR_CACHE'.cache[q].last_accessed <= TAR_CACHE'.cache[tgz_path].last_accessed

\* C33: an admission, also of an archive path that is already cached,
\* removes an entry only if no remaining entry was accessed earlier and the
\* remaining entries, that entry and the new archive together exceed
\* max_size; a call that finds the archive cached leaves it the most
\* recently accessed
C33_EvictsLeastRecentWhenNeeded ==
    [][\A c \in RaceTasks :
          /\ Admits(c) =>
                LET tgz_path == tasks[c].tgz_path
                    kept == DOMAIN TAR_CACHE'.cache \ { tgz_path }
                    total_size == IF has_tgz(TAR_CACHE', tgz_path)
                                  THEN TAR_CACHE'.cache[tgz_path].total_size ELSE 0
                IN  \A k \in DOMAIN TAR_CACHE.cache :
                        EvictedFor(k, tgz_path) =>
                            /\ \A q \in kept : TAR_CACHE.cache[k].last_accessed
                                                  <= TAR_CACHE.cache[q].last_accessed
                            /\ SumSizes(TAR_CACHE, kept \cup { k }) + total_size
                                  > TAR_CACHE.max_size
          /\ (/\ tasks'[c] # tasks[c]
              /\ tasks'[c].pc = "idle"
              /\ has_tgz(TAR_CACHE', tasks'[c].tgz_path)) => MostRecent(tasks'[c].tgz_path)
      ]_vars

\* the uncompressed total of the archive stored at tgz_path exceeds max_size
Oversize(tgz_path) ==
    /\ IsFile(fs, tgz_path)
    /\ Decode(fs[Canon(tgz_path)].data) # None
    /\ SumLen(Unwrap(Decode(fs[Canon(tgz_path)].data)), 1) > TAR_CACHE.max_size

\* C34: a step of extract_file_cached on an archive whose uncompressed total
\* exceeds max_size leaves the cache as it was, without the archive; the
\* call finds the archive missing and loads it, and the load ends in an error
C34_OversizeNeverAdmitted ==
    [][\A c \in RaceTasks :
          (tasks'[c] # tasks[c] /\ Oversize(tasks'[c].tgz_path)) =>
              /\ TAR_CACHE' = TAR_CACHE
              /\ ~has_tgz(TAR_CACHE', tasks'[c].tgz_path)
              /\ tasks[c].pc = "idle" => tasks'[c].pc = "load"
              /\ tasks[c].pc = "load" => tasks'[c].pc = "idle" /\ tasks'[c].result = "err"
      ]_vars

\* with a.tgz cached under a budget of 24, a call for package.json of the
\* 32-byte archive c.tgz, which holds that entry, has failed and a.tgz is
\* still cached
C34_ExistingEntryRefused ==
    /\ TAR_CACHE.max_size = 24
    /\ has_tgz(TAR_CACHE, "/stores/a/-/a.tgz")
    /\ \E c \in RaceTasks :
          /\ tasks[c].pc = "idle"
          /\ tasks[c].tgz_path = "/stores/c/-/c.tgz"
          /\ tasks[c].file_path = "package/package.json"
          /\ tasks[c].result = "err"
          /\ tasks[c].fresh # None

\* C35: whatever the interleaving of the callers' loads, of the evictions,
\* of clear_cache and of set_max_size, current_size is the sum of the cached
\* archives' total sizes, it is not negative, and the entries are those of
\* archive paths that were read, one for each
C35_SizeIsSumOfEntries ==
    /\ TAR_CACHE.current_size = SumSizes(TAR_CACHE, DOMAIN TAR_CACHE.cache)
    /\ TAR_CACHE.current_size >= 0
    /\ DOMAIN TAR_CACHE.cache \subseteq RaceTgz
    /\ \A k \in DOMAIN TAR_CACHE.cache :
          TAR_CACHE.cache[k].total_size = SumLen(Unwrap(Decode(fs[Canon(k)].data)), 1)

\* the cache is full with two archives, one of them admitted by a caller
\* that has returned, while the other caller's load of that same archive is
\* still to complete
C35_SecondLoadPending ==
    /\ TAR_CACHE.max_size = 48
    /\ TAR_CACHE.current_size = 48
    /\ \E c, d \in RaceTasks :
          /\ tasks[c].pc = "load"
          /\ has_tgz(TAR_CACHE, tasks[c].tgz_path)
          /\ tasks[d].pc = "idle" /\ tasks[d].result = "ok"

(***************************************************************************)
(* Properties of the install of an archive without files (SpecEmpty)       *)
(***************************************************************************)
\* the step is the return of Ok from install_package for package k
InstalledOk(k) ==
    /\ k \in DOMAIN tasks /\ tasks[k].pc = "link"
    /\ k \in DOMAIN tasks' /\ tasks'[k].pc = "done"

\* C36: when install_package returns Ok for a package, the _resolved marker
\* of the package is a regular file and its unpack path is a directory
C36_CachedAfterOk ==
    [][\A k \in { "node_modules/a", "node_modules/d" } :
          InstalledOk(k) => is_cached(fs', PathsOf(k))]_vars

(***************************************************************************)
(* Properties of planning (SpecStore)                                      *)
(***************************************************************************)
\* the step is a call of install_deps
DepsCalled ==
    /\ inst.pc = "idle"
    /\ inst'.runs = inst.runs + 1
    /\ inst'.call = "install_deps"

\* the paths at which storage differs before and after the step
Touched ==
    { q \in DOMAIN fs \cup DOMAIN fs' :
        ~(q \in DOMAIN fs /\ q \in DOMAIN fs' /\ fs[q] = fs'[q]) }

\* C37: install_deps on a lockfile with an entry without resolved URL returns
\* an error in the step that plans: no future is created, no GET is issued,
\* the sentinel cache is as before, and storage differs at most in the root
\* package.json and the node_modules directory
C37_OnlyRootWritten ==
    [][(DepsCalled /\ UnresolvedKeys # {}) =>
          /\ inst'.pc = "idle" /\ inst'.result = "err"
          /\ tasks' = << >> /\ gets' = << >>
          /\ FUSE_LINK_CACHE' = FUSE_LINK_CACHE
          /\ Touched \subseteq { "/p/package.json", "/p/node_modules" }]_vars

\* install_deps failed on the unresolved entry after it wrote the root
\* package.json, while the store holds the complete cache of entry a, which
\* has no sentinel
C37_FailedWithCacheInStore ==
    /\ DepsReturned /\ UnresolvedKeys # {}
    /\ inst.result = "err"
    /\ IsFile(fs, "/p/package.json") /\ IsDir(fs, "/p/node_modules")
    /\ is_cached(fs, Unwrap(package_info(ProjectLock, "node_modules/a").paths))
    /\ ~Exists(fs, "/p/node_modules/a/fuse.link")
    /\ FUSE_LINK_CACHE = << >>

(***************************************************************************)
(* Properties of the download stage (SpecAny)                              *)
(***************************************************************************)
\* the install_package futures that are suspended at an await, and those
\* the stream has not polled yet
Suspended == { k \in DOMAIN tasks : tasks[k].pc \in InFlight }
Unpolled == { k \in DOMAIN tasks : tasks[k].pc = "queued" }

\* C38: the download stage of install_deps never stalls: while the call is
\* in that stage a future is suspended at an operation that will complete,
\* or the stream can poll a package that is left, or every package is
\* processed and the call returns
C38_DownloadStageNeverStalls ==
    inst.pc = "download" =>
        \/ Suspended # {}
        \/ Unpolled # {} /\ Cardinality(Suspended) < inst.max
        \/ Unpolled = {} /\ inst.max > 0

(***************************************************************************)
(* Properties of the attribution of paths to packages (SpecLookup)         *)
(***************************************************************************)
\* the components of the cwd-relative form of a path below a package directory
Below(path, install_path) ==
    LET rel == Components(RelativeToCwd(path))
        n == Len(Components(install_path))
    IN  SubSeq(rel, n + 1, Len(rel))

\* C39: the descriptor a lookup returns is that of a package whose install
\* path is a prefix of the path by whole components, and the relative path
\* within the package is the remainder below the package directory
C39_AttributedByComponents ==
    (rd.pc = "done" /\ rd.trace # None) =>
        LET install_path == Unwrap(rd.trace).install_path IN
        /\ IsPrefixSeq(Components(install_path), Components(RelativeToCwd(rd.path)))
        /\ Components(get_relative_path_in_package(rd.path, install_path))
              = Below(rd.path, install_path)

(***************************************************************************)
(* Properties of the two views of an archive (SpecViews)                   *)
(***************************************************************************)
\* the eager view: the files below the unpack directory of an archive, as
\* relative path -> bytes
EagerView(tgz_path) ==
    LET below == { q \in DOMAIN fs :
                     ~fs[q].dir /\ StartsWith(q, UnpackDir(tgz_path) \o "/") }
        rel(q) == Unwrap(StripPrefix(q, UnpackDir(tgz_path) \o "/"))
    IN  [ r \in { rel(q) : q \in below } |->
            fs[CHOOSE q \in below : rel(q) = r].data ]

\* the lazy view: what the archive cache serves for '<prefix>/R', as R -> bytes
LazyView(tgz_path) == TAR_CACHE.cache[tgz_path].files

\* C40: for an archive that was unpacked by extract_tgz_bytes and is loaded
\* in the archive cache, the files of the unpack directory and the entries
\* the cache serves are the same relative paths with the same bytes
C40_ViewsAgree ==
    \A tgz_path \in ViewTgz :
        (tgz_path \in io /\ has_tgz(TAR_CACHE, tgz_path)) =>
            EagerView(tgz_path) = LazyView(tgz_path)
====
